---- MODULE Spec2Model ----
(***************************************************************************)
(* Model of the SmartPulse client (src/client/main.py): the retry          *)
(* decorator retry_on_failure, the token lifecycle of SmartPulseClient     *)
(* (_is_token_valid, get_token) and the clock they read, the portal calls  *)
(* login_to_portal and send_consumption_forecast, execute_pipeline and the *)
(* batch run of the script's __main__ block.                               *)
(* ForecastSender.process_and_send (src/send-forecast/forecast_sender.py)  *)
(* is modelled as a run of its own, and so are AuthManager                 *)
(* (src/send-forecast/auth_manager.py) with its token file and the mock    *)
(* server (src/server/main.py); the functions of PortalManager and the     *)
(* validating constructors are called on their own.                        *)
(*                                                                         *)
(* Time is in seconds.  Python's Optional values are sequences of length   *)
(* at most one: None is <<>>, a value x is <<x>>.  Strings that the code   *)
(* parses (the Retry-After header) are sequences of characters.            *)
(***************************************************************************)
EXTENDS Integers, Sequences, FiniteSets, TLC

VARIABLES
    func,               \* the function the retry wrapper is wrapping ("none" when idle)
    max_attempts,       \* retry_on_failure(max_attempts=...)
    backoff_factor,     \* retry_on_failure(backoff_factor=...)
    pc,                 \* "idle", "running" (inside wrapper's for loop), "done"
    attempt,            \* the for loop's variable
    last_exception,     \* wrapper's local last_exception
    call_count,         \* how often the wrapped function was called in this wrapper call
    sleep_calls,        \* durations of the time.sleep calls completed in this wrapper call
    history,            \* outcome of each call of the wrapped function, in order
    ret,                \* how the wrapper call ended: value returned or exception raised
    post_log,           \* the session.post calls made in this wrapper call
    now,                \* datetime.now(), seconds
    access_token,       \* SmartPulseClient.access_token : Optional[str]
    token_expires_at,   \* SmartPulseClient.token_expires_at : Optional[datetime]
    token_expires_in,   \* SmartPulseClient.token_expires_in
    is_valid_ret,       \* value returned by the latest _is_token_valid() call
    mpc,                \* where the batch run (__main__, process_forecast_for_date, execute_pipeline) stands
    frames,             \* the wrapper calls suspended while a nested get_token runs
    ensure_ret,         \* outcome of the latest _ensure_valid_token() not yet consumed by its caller
    days_ahead,         \* get_forecast_dates(days_ahead)
    date_index,         \* position of the for loop in forecast_dates
    results,            \* the results dict of __main__, in insertion order
    exit_code,          \* the status given to sys.exit
    pipeline_log,       \* the POSTs sent while processing the current date
    token_requests,     \* number of token POSTs sent in the batch run
    sender_pc,          \* where ForecastSender.process_and_send stands
    dry_run,            \* process_and_send(dry_run=...)
    grouped,            \* the (customer, date) groups of the fetched records: each one's facility id and hourly records
    group_index,        \* position of process_and_send's loops in grouped
    sender_results,     \* the results dict of process_and_send
    response,           \* how the latest requests.post of send_forecast ended
    payload,            \* the payload build_api_payload returned for the latest group
    facilities_map,     \* PortalManager.facilities_map: the dict's items, in insertion order
    login_requests,     \* the POSTs PortalManager.login has sent to the login endpoint
    mock_tokens,        \* the mock server's mock_tokens dict: its items, in insertion order
    token_lock,         \* the mock server's token_lock: "free" or the thread holding it
    cleanup_pc,         \* where the thread running cleanup_expired_tokens stands
    expired_tokens,     \* cleanup_expired_tokens' local expired_tokens
    scan,               \* the iterator of cleanup_expired_tokens' first for loop
    handler_pc,         \* where the request handler in progress stands
    request,            \* the request being handled, or handled last
    http_response,      \* the answer to the latest request
    called,             \* the function or constructor called on its own ("none" before the call)
    db_records,         \* transform_db_data_to_api_format's db_records
    api_data,           \* what transform_db_data_to_api_format returned
    settings,           \* the settings a constructor read: the fields it validates
    raised,             \* the missing settings named by the ValueError of the constructor, if it raised
    customer_name,      \* get_facility_id's customer_name
    facility_id_ret,    \* what get_facility_id returned
    normalized_name,    \* what _normalize_name returned
    token_expiry,       \* AuthManager.token_expiry : Optional[datetime] (its access_token is the variable access_token)
    token_file,         \* the content of AuthManager.token_file, None while the file does not exist
    auth_requests,      \* number of POSTs AuthManager has sent to the token endpoint
    auth_call           \* the latest call of an AuthManager method: its arguments, the state it found and how it ended

vars == <<func, max_attempts, backoff_factor, pc, attempt, last_exception, call_count, sleep_calls, history, ret, post_log, now, access_token, token_expires_at, token_expires_in, is_valid_ret, mpc, frames, ensure_ret, days_ahead, date_index, results, exit_code, pipeline_log, token_requests, sender_pc, dry_run, grouped, group_index, sender_results, response, payload, facilities_map, login_requests, mock_tokens, token_lock, cleanup_pc, expired_tokens, scan, handler_pc, request, http_response, called, db_records, api_data, settings, raised, customer_name, facility_id_ret, normalized_name, token_expiry, token_file, auth_requests, auth_call>>

wrapper_vars == <<func, max_attempts, backoff_factor, pc, attempt, last_exception, call_count, sleep_calls, history, ret, post_log>>

client_vars == <<access_token, token_expires_at, token_expires_in>>

batch_vars == <<mpc, frames, ensure_ret, days_ahead, date_index, results, exit_code, pipeline_log, token_requests>>

sender_vars == <<sender_pc, dry_run, grouped, group_index, sender_results, response, payload>>

portal_vars == <<facilities_map, login_requests>>

server_vars == <<mock_tokens, token_lock, cleanup_pc, expired_tokens, scan, handler_pc, request, http_response>>

call_vars == <<called, db_records, api_data, settings, raised, customer_name, facility_id_ret, normalized_name>>

auth_vars == <<token_expiry, token_file, auth_requests, auth_call>>

\* The variables of the parts other than the client, the batch run and the sender.
other_vars == <<portal_vars, server_vars, call_vars, auth_vars>>

\* The variables of the client programs.
program_vars == <<wrapper_vars, now, client_vars, is_valid_ret, batch_vars, sender_vars, portal_vars, call_vars, auth_vars>>

-----------------------------------------------------------------------------
\* Bounds of the exploration.

\* Largest max_attempts given to retry_on_failure.
MaxAttempts == 3

\* The clock is not advanced beyond this instant.
MaxNow == 6700

\* Largest number of dates of a batch run.
MaxDaysAhead == 2

\* Largest number of (customer, date) groups process_and_send is given.
MaxGroups == 2

\* Largest number of database rows given to transform_db_data_to_api_format.
MaxRecords == 2

\* Largest number of facilities in a login answer.
MaxFacilities == 2

\* Largest length of a customer name.
MaxNameLen == 2

\* Largest number of tokens the mock server issues.
MaxTokens == 2

\* Largest number of token requests an AuthManager sends.
MaxAuthRequests == 2

\* Largest number of forecastDataList entries in a submission to the mock server.
MaxForecastData == 2

\* Program constants.

\* The number of hourly forecasts of a day.
HoursPerDay == 24

\* timedelta(minutes=5), in seconds.
SafetyMargin == 300

\* timedelta(seconds=60), the buffer of AuthManager.is_token_valid.
ExpiryBuffer == 60

\* token_data.get("expires_in", 3600)
DefaultExpiresIn == 3600

\* @retry_on_failure(max_attempts=3, backoff_factor=2) on the client's methods.
ClientMaxAttempts == 3

ClientBackoffFactor == 2

retry_statuses == {500, 502, 503, 504, 429}

-----------------------------------------------------------------------------
\* Python values.

None == <<>>

Some(x) == <<x>>

\* JSON numbers and JSON strings, as the values of a decoded body.
JInt(n) == [type |-> "int", val |-> n]

JStr == [type |-> "str", val |-> 0]

Exc(cls, has_response, status, retry_after) == [cls |-> cls, has_response |-> has_response, status |-> status, retry_after |-> retry_after, call |-> 0]

NoExc == Exc("None", FALSE, 0, None)

Return(v) == [kind |-> "return", val |-> v, exc |-> NoExc]

Raise(e) == [kind |-> "raise", val |-> "", exc |-> e]

NoRet == [kind |-> "none", val |-> "", exc |-> NoExc]

\* The state of the batch variables when no batch run is modelled.
NoBatch ==
    /\ mpc = "none"
    /\ frames = <<>>
    /\ ensure_ret = None
    /\ days_ahead = 0
    /\ date_index = 0
    /\ results = <<>>
    /\ exit_code = None
    /\ pipeline_log = <<>>
    /\ token_requests = 0

\* The state of the sender variables when no ForecastSender is modelled.
NoSender ==
    /\ sender_pc = "none"
    /\ dry_run = FALSE
    /\ grouped = <<>>
    /\ group_index = 0
    /\ sender_results = [sent |-> 0, failed |-> 0, skipped |-> 0]
    /\ response = None
    /\ payload = <<>>

\* A fresh PortalManager (lines 28-30), no request sent yet.
NoPortal ==
    /\ facilities_map = <<>>
    /\ login_requests = <<>>

\* No mock server.
NoServer ==
    /\ mock_tokens = <<>>
    /\ token_lock = "free"
    /\ cleanup_pc = "none"
    /\ expired_tokens = <<>>
    /\ scan = [index |-> 1, size |-> 0]
    /\ handler_pc = "none"
    /\ request = <<>>
    /\ http_response = <<>>

\* Nothing called on its own.
NoCalls ==
    /\ called = "none"
    /\ db_records = <<>>
    /\ api_data = <<>>
    /\ settings = <<>>
    /\ raised = <<>>
    /\ customer_name = <<>>
    /\ facility_id_ret = <<>>
    /\ normalized_name = <<>>

\* No AuthManager.
NoAuth ==
    /\ token_expiry = <<>>
    /\ token_file = <<>>
    /\ auth_requests = 0
    /\ auth_call = <<>>

NoOther == NoPortal /\ NoServer /\ NoCalls /\ NoAuth

\* requests.exceptions: ConnectionError, Timeout and HTTPError derive from RequestException.
IsRequestException(e) == e.cls \in {"ConnectionError", "Timeout", "HTTPError"}

\* sorted(s) for a list of numbers
RECURSIVE sorted(_)
sorted(s) ==
    IF s = <<>>
    THEN <<>>
    ELSE LET rest == sorted(Tail(s))
             k == Cardinality({i \in 1..Len(rest) : rest[i] < Head(s)})
         IN  SubSeq(rest, 1, k) \o <<Head(s)>> \o SubSeq(rest, k + 1, Len(rest))

RECURSIVE Pow(_, _)
Pow(b, n) == IF n <= 0 THEN 1 ELSE b * Pow(b, n - 1)

\* int(s) of a string s: an optional sign followed by decimal digits; anything else is a ValueError.
DigitVal(c) == CASE c = "0" -> 0 [] c = "1" -> 1 [] c = "2" -> 2 [] c = "3" -> 3 [] c = "4" -> 4 [] c = "5" -> 5 [] c = "6" -> 6 [] c = "7" -> 7 [] c = "8" -> 8 [] c = "9" -> 9

Unsigned(s) == IF Len(s) > 0 /\ s[1] \in {"-", "+"} THEN Tail(s) ELSE s

int_raises_ValueError(s) == Len(Unsigned(s)) = 0 \/ \E i \in 1..Len(Unsigned(s)) : Unsigned(s)[i] \notin {"0", "1", "2", "3", "4", "5", "6", "7", "8", "9"}

RECURSIVE DigitsValue(_)
DigitsValue(s) == IF s = <<>> THEN 0 ELSE 10 * DigitsValue(SubSeq(s, 1, Len(s) - 1)) + DigitVal(s[Len(s)])

int(s) == IF Len(s) > 0 /\ s[1] = "-" THEN 0 - DigitsValue(Unsigned(s)) ELSE DigitsValue(Unsigned(s))

-----------------------------------------------------------------------------
\* retry_on_failure

\* Mutant: every error that carries a response is retried.
should_retry_any_status(e) ==
    IF e.has_response
    THEN TRUE
    ELSE e.cls \in {"ConnectionError", "Timeout"}

\* The except branch's decision whether the error is retried (lines 177-209).
should_retry(e) ==
    IF e.has_response
    THEN e.status \in retry_statuses
    ELSE e.cls \in {"ConnectionError", "Timeout"}

\* Mutant: the generic backoff uses the exponent of the 429 branch.
wait_time_exponent_attempt(e, a, bf) ==
    IF e.has_response /\ e.status \in retry_statuses /\ e.status = 429
    THEN IF e.retry_after /= None /\ e.retry_after[1] /= <<>>
         THEN IF int_raises_ValueError(e.retry_after[1])
              THEN Pow(bf, a)
              ELSE int(e.retry_after[1])
         ELSE Pow(bf, a) * 2
    ELSE Pow(bf, a)

\* The except branch's wait before the next attempt (lines 178-202).
wait_time(e, a, bf) ==
    IF e.has_response /\ e.status \in retry_statuses /\ e.status = 429
    THEN IF e.retry_after /= None /\ e.retry_after[1] /= <<>>
         THEN IF int_raises_ValueError(e.retry_after[1])
              THEN Pow(bf, a)
              ELSE int(e.retry_after[1])
         ELSE Pow(bf, a) * 2
    ELSE Pow(bf, a - 1)

\* time.sleep(w) raises ValueError for a negative w.
ValueError == Exc("ValueError", FALSE, 0, None)

\* Mutant: the except clause catches every exception, and one without a response is
\* taken for a connection failure and retried.
wrapper_catching_every_exception(o) ==
    LET e == [o.exc EXCEPT !.call = call_count + 1]
        w == wait_time(e, attempt, backoff_factor)
    IN  /\ pc = "running"
        /\ call_count' = call_count + 1
        /\ UNCHANGED <<func, max_attempts, backoff_factor>>
        /\ IF o.kind = "return"
           THEN /\ history' = Append(history, o)
                /\ ret' = o
                /\ pc' = "done"
                /\ UNCHANGED <<attempt, last_exception, sleep_calls, now>>
           ELSE /\ history' = Append(history, Raise(e))
                /\ last_exception' = e
                /\ IF attempt = max_attempts \/ (e.has_response /\ e.status \notin retry_statuses)
                   THEN /\ ret' = Raise(last_exception')
                        /\ pc' = "done"
                        /\ UNCHANGED <<attempt, sleep_calls, now>>
                   ELSE IF w < 0
                        THEN /\ ret' = Raise(ValueError)
                             /\ pc' = "done"
                             /\ UNCHANGED <<attempt, sleep_calls, now>>
                        ELSE /\ sleep_calls' = Append(sleep_calls, w)
                             /\ now' = now + w
                             /\ attempt' = attempt + 1
                             /\ UNCHANGED <<pc, ret>>

\* One iteration of wrapper's for loop, the wrapped function ending as outcome o.
wrapper(o) ==
    LET e == [o.exc EXCEPT !.call = call_count + 1]
        w == wait_time(e, attempt, backoff_factor)
    IN  /\ pc = "running"
        /\ call_count' = call_count + 1
        /\ UNCHANGED <<func, max_attempts, backoff_factor>>
        /\ IF o.kind = "return"
           THEN /\ history' = Append(history, o)
                /\ ret' = o
                /\ pc' = "done"
                /\ UNCHANGED <<attempt, last_exception, sleep_calls, now>>
           ELSE /\ history' = Append(history, Raise(e))
                /\ IF ~IsRequestException(e)
                   THEN /\ ret' = Raise(e)
                        /\ pc' = "done"
                        /\ UNCHANGED <<attempt, last_exception, sleep_calls, now>>
                   ELSE /\ last_exception' = e
                        /\ IF attempt = max_attempts \/ ~should_retry(e)
                           THEN /\ ret' = Raise(last_exception')
                                /\ pc' = "done"
                                /\ UNCHANGED <<attempt, sleep_calls, now>>
                           ELSE IF w < 0
                                THEN /\ ret' = Raise(ValueError)
                                     /\ pc' = "done"
                                     /\ UNCHANGED <<attempt, sleep_calls, now>>
                                ELSE /\ sleep_calls' = Append(sleep_calls, w)
                                     /\ now' = now + w
                                     /\ attempt' = attempt + 1
                                     /\ UNCHANGED <<pc, ret>>

-----------------------------------------------------------------------------
\* The retry wrapper around a function that may do anything (a Mock in the tests).

BackoffFactors == {2, 3}

RetryAfterValues == {None, Some(<<>>), Some(<<"0">>), Some(<<"1", "0">>), Some(<<"-", "1">>), Some(<<"W", "e", "d">>)}

RequestExceptions ==
    {Exc("ConnectionError", FALSE, 0, None), Exc("Timeout", FALSE, 0, None), Exc("HTTPError", FALSE, 0, None)}
    \cup {Exc("HTTPError", TRUE, s, None) : s \in {401, 404, 500, 502, 503, 504}}
    \cup {Exc("HTTPError", TRUE, 429, h) : h \in RetryAfterValues}

OtherExceptions == {Exc("JSONParseError", FALSE, 0, None), Exc("KeyError", FALSE, 0, None)}

MockReturns == func = "mock_func" /\ wrapper(Return("success")) /\ UNCHANGED <<post_log, client_vars, is_valid_ret, sender_vars, other_vars, batch_vars>>

MockRaisesRequestException == func = "mock_func" /\ \E e \in RequestExceptions : wrapper(Raise(e)) /\ UNCHANGED <<post_log, client_vars, is_valid_ret, sender_vars, other_vars, batch_vars>>

MockRaisesOther == func = "mock_func" /\ \E e \in OtherExceptions : wrapper(Raise(e)) /\ UNCHANGED <<post_log, client_vars, is_valid_ret, sender_vars, other_vars, batch_vars>>

InitRetry ==
    /\ func = "mock_func"
    /\ max_attempts \in 1..MaxAttempts
    /\ backoff_factor \in BackoffFactors
    /\ pc = "running"
    /\ attempt = 1
    /\ last_exception = NoExc
    /\ call_count = 0
    /\ sleep_calls = <<>>
    /\ history = <<>>
    /\ ret = NoRet
    /\ post_log = <<>>
    /\ now = 0
    /\ access_token = None
    /\ token_expires_at = None
    /\ token_expires_in = JInt(DefaultExpiresIn)
    /\ is_valid_ret = None
    /\ NoBatch
    /\ NoSender
    /\ NoOther

NextRetry == MockReturns \/ MockRaisesRequestException \/ MockRaisesOther

SpecRetry == InitRetry /\ [][NextRetry]_vars

-----------------------------------------------------------------------------
\* SmartPulseClient: the token and its validity.

\* Mutant: a token is never taken for valid.
is_token_valid_never == FALSE

\* Mutant: the comparison with expiry - margin is not strict.
is_token_valid_not_strict ==
    IF access_token = None \/ access_token[1] = "" \/ token_expires_at = None
    THEN FALSE
    ELSE now <= token_expires_at[1] - SafetyMargin

\* Mutant: the comparison with expiry - margin is reversed.
is_token_valid_reversed ==
    IF access_token = None \/ access_token[1] = "" \/ token_expires_at = None
    THEN FALSE
    ELSE now > token_expires_at[1] - SafetyMargin

\* SmartPulseClient._is_token_valid
is_token_valid ==
    IF access_token = None \/ access_token[1] = "" \/ token_expires_at = None
    THEN FALSE
    ELSE now < token_expires_at[1] - SafetyMargin

\* A caller invokes _is_token_valid() and receives its value.
IsTokenValidCall ==
    /\ is_valid_ret = None
    /\ is_valid_ret' = Some(is_token_valid)
    /\ UNCHANGED <<wrapper_vars, now, client_vars, batch_vars, sender_vars, other_vars>>

\* Inputs of _is_token_valid: the cases of the tests (expired an hour ago, an hour
\* ahead, three minutes ahead) and the instants around expiry - 5 minutes.
ValidNowSamples == {4000, 4001, 4002}

ValidExpirySamples == {400, 4180, 4299, 4300, 4301, 4302, 7600}

InitValid ==
    /\ func = "none"
    /\ max_attempts = ClientMaxAttempts
    /\ backoff_factor = ClientBackoffFactor
    /\ pc = "idle"
    /\ attempt = 1
    /\ last_exception = NoExc
    /\ call_count = 0
    /\ sleep_calls = <<>>
    /\ history = <<>>
    /\ ret = NoRet
    /\ post_log = <<>>
    /\ now \in ValidNowSamples
    /\ access_token \in {None, Some(""), Some("T1")}
    /\ token_expires_at \in {None} \cup {Some(t) : t \in ValidExpirySamples}
    /\ token_expires_in = JInt(DefaultExpiresIn)
    /\ is_valid_ret = None
    /\ NoBatch
    /\ NoSender
    /\ NoOther

NextValid == IsTokenValidCall

SpecValid == InitValid /\ [][NextValid]_vars

-----------------------------------------------------------------------------
\* SmartPulseClient.get_token and the identity provider's answers.

TokenValues == {"T1", "T2"}

ExpiresInValues == {300, 301, 3600}

NoBody == [valid_json |-> FALSE, access_token |-> None, expires_in |-> None]

\* Bodies of a 2xx answer of the token endpoint: not JSON; JSON without access_token;
\* JSON with access_token and expires_in absent, a number, or a string.
TokenBodies ==
    {NoBody, [valid_json |-> TRUE, access_token |-> None, expires_in |-> Some(JInt(DefaultExpiresIn))]}
    \cup {[valid_json |-> TRUE, access_token |-> Some(t), expires_in |-> x] : t \in TokenValues, x \in {None, Some(JStr)} \cup {Some(JInt(n)) : n \in ExpiresInValues}}

\* What session.post followed by raise_for_status may raise.
PostErrors ==
    {Exc("ConnectionError", FALSE, 0, None), Exc("Timeout", FALSE, 0, None), Exc("HTTPError", FALSE, 0, None)}
    \cup {Exc("HTTPError", TRUE, s, None) : s \in {401, 403, 429, 500, 503}}

PostOutcomes(bodies) ==
    {[kind |-> "raise", exc |-> e, body |-> NoBody] : e \in PostErrors}
    \cup {[kind |-> "ok", exc |-> NoExc, body |-> b] : b \in bodies}

\* safe_json_parse raises JSONParseError when the body is not JSON.
safe_json_parse_raises(r) == ~r.body.valid_json

GetTokenResult(out, tok, at, ein) == [out |-> out, access_token |-> tok, token_expires_at |-> at, token_expires_in |-> ein]

\* Mutant: a JSONParseError is not caught and leaves get_token.
get_token_except_no_parse_clause(e) ==
    IF IsRequestException(e) \/ e.cls = "KeyError"
    THEN Return("False")
    ELSE Raise(e)

\* The except clauses of get_token (lines 372-380): what the method does with an
\* exception e raised in its try block.
get_token_except(e) ==
    IF e.cls = "JSONParseError" \/ IsRequestException(e) \/ e.cls = "KeyError"
    THEN Return("False")
    ELSE Raise(e)

\* Mutant: the expiry is the time to live alone, not counted from the clock.
compute_expires_at_without_now(ein) == Some(ein.val)

\* datetime.now() + timedelta(seconds=self.token_expires_in) (line 365)
compute_expires_at(ein) == Some(now + ein.val)

\* The body of get_token, the POST ending as r: the function's outcome and the
\* client's fields after it.  A non-numeric expires_in makes timedelta raise
\* TypeError after access_token and token_expires_in were assigned.
get_token(r) ==
    LET ein == IF r.body.expires_in = None THEN JInt(DefaultExpiresIn) ELSE r.body.expires_in[1]
    IN  IF r.kind = "raise"
        THEN GetTokenResult(get_token_except(r.exc), access_token, token_expires_at, token_expires_in)
        ELSE IF safe_json_parse_raises(r)
        THEN GetTokenResult(get_token_except(Exc("JSONParseError", FALSE, 0, None)), access_token, token_expires_at, token_expires_in)
        ELSE IF r.body.access_token = None
        THEN GetTokenResult(get_token_except(Exc("KeyError", FALSE, 0, None)), access_token, token_expires_at, token_expires_in)
        ELSE IF ein.type /= "int"
        THEN GetTokenResult(get_token_except(Exc("TypeError", FALSE, 0, None)), r.body.access_token, token_expires_at, ein)
        ELSE GetTokenResult(Return("True"), r.body.access_token, compute_expires_at(ein), ein)

\* A caller calls client.get_token(): the decorated method, so wrapper starts.
CallGetToken ==
    /\ pc \in {"idle", "done"}
    /\ func' = "get_token"
    /\ max_attempts' = ClientMaxAttempts
    /\ backoff_factor' = ClientBackoffFactor
    /\ pc' = "running"
    /\ attempt' = 1
    /\ last_exception' = NoExc
    /\ call_count' = 0
    /\ sleep_calls' = <<>>
    /\ history' = <<>>
    /\ ret' = NoRet
    /\ post_log' = <<>>
    /\ UNCHANGED <<now, client_vars, is_valid_ret, sender_vars, other_vars, batch_vars>>

\* One attempt of the wrapper around get_token: the body runs, its POST ending as r.
get_token_attempt(bodies) ==
    /\ func = "get_token"
    /\ \E r \in PostOutcomes(bodies) :
        LET g == get_token(r)
        IN  /\ wrapper(g.out)
            /\ post_log' = Append(post_log, [url |-> "/oauth2/token", outcome |-> r])
            /\ access_token' = g.access_token
            /\ token_expires_at' = g.token_expires_at
            /\ token_expires_in' = g.token_expires_in

GetTokenAttempt == get_token_attempt(TokenBodies) /\ UNCHANGED <<is_valid_ret, sender_vars, other_vars, batch_vars>>

\* The clock moves forward.
TickSteps == {3299, 3300, 3301}

Tick ==
    /\ \E d \in TickSteps : now + d <= MaxNow /\ now' = now + d
    /\ UNCHANGED <<wrapper_vars, client_vars, is_valid_ret, sender_vars, other_vars, batch_vars>>

Init ==
    /\ func = "none"
    /\ max_attempts = ClientMaxAttempts
    /\ backoff_factor = ClientBackoffFactor
    /\ pc = "idle"
    /\ attempt = 1
    /\ last_exception = NoExc
    /\ call_count = 0
    /\ sleep_calls = <<>>
    /\ history = <<>>
    /\ ret = NoRet
    /\ post_log = <<>>
    /\ now = 0
    /\ access_token = None
    /\ token_expires_at = None
    /\ token_expires_in = JInt(DefaultExpiresIn)
    /\ is_valid_ret = None
    /\ NoBatch
    /\ NoSender
    /\ NoOther

Next == CallGetToken \/ GetTokenAttempt \/ Tick

Spec == Init /\ [][Next]_vars

-----------------------------------------------------------------------------
\* SmartPulseClient: the portal calls login_to_portal and send_consumption_forecast.

PortalBody(valid_json, is_object, success, savedRecords) == [valid_json |-> valid_json, is_object |-> is_object, success |-> success, savedRecords |-> savedRecords]

\* Bodies of a 2xx answer of the portal: not JSON; JSON that is not an object; an object
\* without "success", with success false, with success true (and savedRecords).
PortalBodies ==
    {PortalBody(FALSE, FALSE, None, None), PortalBody(TRUE, FALSE, None, None), PortalBody(TRUE, TRUE, None, None),
     PortalBody(TRUE, TRUE, Some(FALSE), None), PortalBody(TRUE, TRUE, Some(TRUE), None), PortalBody(TRUE, TRUE, Some(TRUE), Some(24))}

\* Mutant: only JSONParseError is caught, a RequestException leaves the method.
portal_except_only_parse_errors(e) ==
    IF e.cls = "JSONParseError"
    THEN Return("False")
    ELSE Raise(e)

\* The except clauses of login_to_portal (lines 419-424) and of send_consumption_forecast
\* (lines 459-464): what the method does with an exception e raised in its try block.
portal_except(e) ==
    IF e.cls = "JSONParseError" \/ IsRequestException(e)
    THEN Return("False")
    ELSE Raise(e)

\* Mutant: success=true is taken for a failure and anything else for a success.
portal_try_success_inverted(r) ==
    IF r.kind = "raise"
    THEN portal_except(r.exc)
    ELSE IF safe_json_parse_raises(r)
    THEN portal_except(Exc("JSONParseError", FALSE, 0, None))
    ELSE IF ~r.body.is_object
    THEN portal_except(Exc("AttributeError", FALSE, 0, None))
    ELSE IF r.body.success = Some(TRUE)
    THEN Return("False")
    ELSE Return("True")

\* Mutant: an answer without success=true is reported as a success.
portal_try_ignoring_success(r) ==
    IF r.kind = "raise"
    THEN portal_except(r.exc)
    ELSE IF safe_json_parse_raises(r)
    THEN portal_except(Exc("JSONParseError", FALSE, 0, None))
    ELSE IF ~r.body.is_object
    THEN portal_except(Exc("AttributeError", FALSE, 0, None))
    ELSE Return("True")

\* The try block of login_to_portal (lines 405-417) and of send_consumption_forecast
\* (lines 445-457), the POST ending as r.  A JSON body that is not an object has no
\* .get, so the method raises AttributeError.
portal_try(r) ==
    IF r.kind = "raise"
    THEN portal_except(r.exc)
    ELSE IF safe_json_parse_raises(r)
    THEN portal_except(Exc("JSONParseError", FALSE, 0, None))
    ELSE IF ~r.body.is_object
    THEN portal_except(Exc("AttributeError", FALSE, 0, None))
    ELSE IF r.body.success = Some(TRUE)
    THEN Return("True")
    ELSE Return("False")

\* Mutant: the POST is sent whatever _ensure_valid_token returned.
sends_post_always(ens) == ens.kind = "return"

\* Whether the method goes on to its POST, _ensure_valid_token having ended as ens
\* (lines 388-390 and 432-434).
sends_post(ens) == ens.kind = "return" /\ ens.val = "True"

\* The body of login_to_portal, _ensure_valid_token having ended as ens and the POST,
\* when one is sent, as r.
login_to_portal(ens, r) ==
    IF ens.kind = "raise"
    THEN ens
    ELSE IF ~sends_post(ens)
    THEN Return("False")
    ELSE portal_try(r)

\* The body of send_consumption_forecast, likewise.
send_consumption_forecast(ens, r) ==
    IF ens.kind = "raise"
    THEN ens
    ELSE IF ~sends_post(ens)
    THEN Return("False")
    ELSE portal_try(r)

\* The wrapper call in progress, as saved while a nested decorated call runs.
current_frame == [func |-> func, max_attempts |-> max_attempts, backoff_factor |-> backoff_factor, pc |-> pc, attempt |-> attempt, last_exception |-> last_exception, call_count |-> call_count, sleep_calls |-> sleep_calls, history |-> history, ret |-> ret, post_log |-> post_log]

\* A decorated method f of the client is called: wrapper starts (lines 162-165).
start_wrapper(f) ==
    /\ func' = f
    /\ max_attempts' = ClientMaxAttempts
    /\ backoff_factor' = ClientBackoffFactor
    /\ pc' = "running"
    /\ attempt' = 1
    /\ last_exception' = NoExc
    /\ call_count' = 0
    /\ sleep_calls' = <<>>
    /\ history' = <<>>
    /\ ret' = NoRet
    /\ post_log' = <<>>

\* The caller has taken the value of the wrapper call: wrapper's locals are gone.
end_wrapper ==
    /\ func' = "none"
    /\ max_attempts' = ClientMaxAttempts
    /\ backoff_factor' = ClientBackoffFactor
    /\ pc' = "idle"
    /\ attempt' = 1
    /\ last_exception' = NoExc
    /\ call_count' = 0
    /\ sleep_calls' = <<>>
    /\ history' = <<>>
    /\ ret' = NoRet
    /\ post_log' = <<>>

\* The nested call has ended: the suspended wrapper call goes on.
resume_wrapper(f) ==
    /\ func' = f.func
    /\ max_attempts' = f.max_attempts
    /\ backoff_factor' = f.backoff_factor
    /\ pc' = f.pc
    /\ attempt' = f.attempt
    /\ last_exception' = f.last_exception
    /\ call_count' = f.call_count
    /\ sleep_calls' = f.sleep_calls
    /\ history' = f.history
    /\ ret' = f.ret
    /\ post_log' = f.post_log

\* The token endpoint answered 2xx with a JSON object holding access_token and a
\* numeric (or no) expires_in.
token_ok(r) == r.kind = "ok" /\ r.body.valid_json /\ r.body.access_token /= None /\ (r.body.expires_in = None \/ r.body.expires_in[1].type = "int")

\* The portal answered 2xx with a JSON object holding success=true.
portal_ok(r) == r.kind = "ok" /\ r.body.valid_json /\ r.body.is_object /\ r.body.success = Some(TRUE)

\* An entry of pipeline_log: the URL, the token of the Authorization header, whether
\* _is_token_valid() holds at the instant a portal request is sent (for a token
\* request: once its answer is stored), and whether the endpoint answered with success.
Request(url, bearer, valid, ok) == [url |-> url, bearer |-> bearer, valid |-> valid, ok |-> ok]

LoginUrl == "/Login/Login"

ForecastUrl == "/api/consumption-forecast/save-consumption-forecasts-provider"

TokenUrl == "/oauth2/token"

-----------------------------------------------------------------------------
\* execute_pipeline, process_forecast_for_date and the batch run of __main__.

\* get_forecast_dates(days_ahead): today + i days for i in range(days_ahead).
get_forecast_dates(n) == [k \in 1..n |-> k - 1]

forecast_dates == get_forecast_dates(days_ahead)

\* d[k] = v on a dict d kept as the sequence of its items, in insertion order.
dict_set(d, k, v) ==
    IF \E j \in 1..Len(d) : d[j].key = k
    THEN [j \in 1..Len(d) |-> IF d[j].key = k THEN [key |-> k, value |-> v] ELSE d[j]]
    ELSE Append(d, [key |-> k, value |-> v])

\* Mutant: a failed date ends the for loop.
record_result_stopping_on_failure(success) ==
    /\ results' = dict_set(results, forecast_dates[date_index], success)
    /\ now' = IF forecast_dates[date_index] /= forecast_dates[Len(forecast_dates)] THEN now + 2 ELSE now
    /\ date_index' = IF success THEN date_index + 1 ELSE Len(forecast_dates) + 1
    /\ mpc' = "loop"
    /\ ensure_ret' = None

\* process_forecast_for_date returns success to the for loop of __main__ (lines 675-683):
\* the result is stored, the loop sleeps 2 seconds unless the date is the last one, and
\* goes on to the next date.
record_result(success) ==
    /\ results' = dict_set(results, forecast_dates[date_index], success)
    /\ now' = IF forecast_dates[date_index] /= forecast_dates[Len(forecast_dates)] THEN now + 2 ELSE now
    /\ date_index' = date_index + 1
    /\ mpc' = "loop"
    /\ ensure_ret' = None

\* The token endpoint's 2xx answers during a batch run: not JSON, or a token whose
\* expires_in is absent, 300, or a string.
BatchTokenBodies ==
    {NoBody} \cup {[valid_json |-> TRUE, access_token |-> Some("T1"), expires_in |-> x] : x \in {None, Some(JInt(300)), Some(JStr)}}

\* One attempt of the wrapper around get_token during a batch run.
TokenAttempt ==
    /\ mpc \in {"initial_token", "pipeline_ensure", "login_ensure", "send_ensure"}
    /\ get_token_attempt(BatchTokenBodies)
    /\ pipeline_log' = Append(pipeline_log, Request(TokenUrl, None, is_token_valid', token_ok(post_log'[Len(post_log')].outcome)))
    /\ token_requests' = token_requests + 1
    /\ UNCHANGED <<is_valid_ret, sender_vars, other_vars, mpc, frames, ensure_ret, days_ahead, date_index, results, exit_code>>

\* __main__ up to client.get_token() (lines 657-670).
MainGetToken ==
    /\ mpc = "start"
    /\ start_wrapper("get_token")
    /\ mpc' = "initial_token"
    /\ UNCHANGED <<now, client_vars, is_valid_ret, sender_vars, other_vars, frames, ensure_ret, days_ahead, date_index, results, exit_code, pipeline_log, token_requests>>

\* DatabaseManager(db_url), load_config() or SmartPulseClient(config) raises: the
\* except clause of __main__ exits with status 1 (lines 712-714).
MainFatalError ==
    /\ mpc = "start"
    /\ mpc' = "exited"
    /\ exit_code' = Some(1)
    /\ UNCHANGED <<wrapper_vars, now, client_vars, is_valid_ret, sender_vars, other_vars, frames, ensure_ret, days_ahead, date_index, results, pipeline_log, token_requests>>

\* Mutant: only an exception of get_token stops the run.
initial_token_obtained_unless_raised(r) == r.kind = "return"

\* The test of line 670 on the outcome r of client.get_token(): the run goes on when
\* get_token returned True.
initial_token_obtained(r) == r = Return("True")

\* if not client.get_token(): sys.exit(1) (lines 670-672); an exception raised by
\* get_token reaches the except clause of __main__, which exits with status 1.
MainTokenChecked ==
    /\ mpc = "initial_token" /\ pc = "done"
    /\ IF initial_token_obtained(ret)
       THEN /\ mpc' = "loop"
            /\ date_index' = 1
            /\ results' = <<>>
            /\ UNCHANGED exit_code
       ELSE /\ mpc' = "exited"
            /\ exit_code' = Some(1)
            /\ UNCHANGED <<date_index, results>>
    /\ end_wrapper
    /\ UNCHANGED <<now, client_vars, is_valid_ret, sender_vars, other_vars, frames, ensure_ret, days_ahead, pipeline_log, token_requests>>

\* What db_manager.fetch_forecast_data gives for a date.
FetchOutcomes == {"records", "empty", "raises"}

\* Mutant: an empty list of records is handed on as any other.
process_date_without_empty_check(db) ==
    /\ mpc = "loop" /\ date_index <= Len(forecast_dates)
    /\ pipeline_log' = <<>>
    /\ IF db \in {"records", "empty"}
       THEN /\ mpc' = "pipeline_ensure"
            /\ UNCHANGED <<now, date_index, results, ensure_ret>>
       ELSE record_result(FALSE)
    /\ UNCHANGED <<wrapper_vars, client_vars, is_valid_ret, sender_vars, other_vars, frames, days_ahead, exit_code, token_requests>>

\* process_forecast_for_date up to the call of execute_pipeline (lines 598-614), the
\* query ending as db: no records, or an exception, make it return False.
process_date(db) ==
    /\ mpc = "loop" /\ date_index <= Len(forecast_dates)
    /\ pipeline_log' = <<>>
    /\ IF db = "records"
       THEN /\ mpc' = "pipeline_ensure"
            /\ UNCHANGED <<now, date_index, results, ensure_ret>>
       ELSE record_result(FALSE)
    /\ UNCHANGED <<wrapper_vars, client_vars, is_valid_ret, sender_vars, other_vars, frames, days_ahead, exit_code, token_requests>>

ProcessDate == \E db \in FetchOutcomes : process_date(db)

\* Mutant: the exit status is 1 only when every date failed.
exit_status_unless_any_success(failed, total) == IF failed > 0 /\ failed = total THEN 1 ELSE 0

\* if failed > 0: sys.exit(1) else: sys.exit(0) (lines 705-710)
exit_status(failed, total) == IF failed > 0 THEN 1 ELSE 0

\* After the for loop: the summary and the exit status (lines 690-710).
MainExit ==
    /\ mpc = "loop" /\ date_index > Len(forecast_dates)
    /\ LET successful == Cardinality({j \in 1..Len(results) : results[j].value})
           failed == Len(results) - successful
       IN  exit_code' = Some(exit_status(failed, Len(results)))
    /\ mpc' = "exited"
    /\ UNCHANGED <<wrapper_vars, now, client_vars, is_valid_ret, sender_vars, other_vars, frames, ensure_ret, days_ahead, date_index, results, pipeline_log, token_requests>>

\* _ensure_valid_token (lines 326-333), called by execute_pipeline, login_to_portal
\* or send_consumption_forecast: True when the token is valid, otherwise get_token().
EnsureValidToken ==
    /\ mpc \in {"pipeline_ensure", "login_ensure", "send_ensure"}
    /\ ensure_ret = None /\ frames = <<>>
    /\ IF is_token_valid
       THEN /\ ensure_ret' = Some(Return("True"))
            /\ UNCHANGED <<wrapper_vars, frames>>
       ELSE /\ frames' = <<current_frame>> \o frames
            /\ start_wrapper("get_token")
            /\ UNCHANGED ensure_ret
    /\ UNCHANGED <<now, client_vars, is_valid_ret, sender_vars, other_vars, mpc, days_ahead, date_index, results, exit_code, pipeline_log, token_requests>>

\* The get_token() called by _ensure_valid_token has ended: its outcome is the outcome
\* of _ensure_valid_token.
EnsureReturn ==
    /\ mpc \in {"pipeline_ensure", "login_ensure", "send_ensure"}
    /\ func = "get_token" /\ pc = "done" /\ frames /= <<>> /\ ensure_ret = None
    /\ ensure_ret' = Some(ret)
    /\ resume_wrapper(Head(frames))
    /\ frames' = Tail(frames)
    /\ UNCHANGED <<now, client_vars, is_valid_ret, sender_vars, other_vars, mpc, days_ahead, date_index, results, exit_code, pipeline_log, token_requests>>

\* execute_pipeline step 1 (lines 478-481): without a token the pipeline returns False;
\* an exception of get_token leaves execute_pipeline and is caught by
\* process_forecast_for_date (lines 625-627), which returns False.
PipelineTokenChecked ==
    /\ mpc = "pipeline_ensure" /\ ensure_ret /= None
    /\ IF ensure_ret[1] = Return("True")
       THEN /\ mpc' = "login_call"
            /\ ensure_ret' = None
            /\ UNCHANGED <<now, date_index, results>>
       ELSE record_result(FALSE)
    /\ UNCHANGED <<wrapper_vars, client_vars, is_valid_ret, sender_vars, other_vars, frames, days_ahead, exit_code, pipeline_log, token_requests>>

\* execute_pipeline step 2 calls self.login_to_portal() (line 484).
CallLogin ==
    /\ mpc = "login_call"
    /\ start_wrapper("login_to_portal")
    /\ mpc' = "login_ensure"
    /\ UNCHANGED <<now, client_vars, is_valid_ret, sender_vars, other_vars, frames, ensure_ret, days_ahead, date_index, results, exit_code, pipeline_log, token_requests>>

\* One attempt of the wrapper around login_to_portal, from the return of
\* _ensure_valid_token to the end of the body.
LoginAttempt ==
    /\ mpc = "login_ensure" /\ func = "login_to_portal" /\ ensure_ret /= None
    /\ \E r \in PostOutcomes(PortalBodies) :
        /\ wrapper(login_to_portal(ensure_ret[1], r))
        /\ IF sends_post(ensure_ret[1])
           THEN /\ post_log' = Append(post_log, [url |-> LoginUrl, outcome |-> r])
                /\ pipeline_log' = Append(pipeline_log, Request(LoginUrl, access_token, is_token_valid, portal_ok(r)))
           ELSE UNCHANGED <<post_log, pipeline_log>>
    /\ ensure_ret' = None
    /\ mpc' = IF pc' = "done" THEN "login_done" ELSE "login_ensure"
    /\ UNCHANGED <<client_vars, is_valid_ret, sender_vars, other_vars, frames, days_ahead, date_index, results, exit_code, token_requests>>

\* if not self.login_to_portal(): return False (lines 484-486).
PipelineLoginChecked ==
    /\ mpc = "login_done"
    /\ IF ret = Return("True")
       THEN /\ mpc' = "send_call"
            /\ UNCHANGED <<now, date_index, results, ensure_ret>>
       ELSE record_result(FALSE)
    /\ end_wrapper
    /\ UNCHANGED <<client_vars, is_valid_ret, sender_vars, other_vars, frames, days_ahead, exit_code, pipeline_log, token_requests>>

\* execute_pipeline step 3 calls self.send_consumption_forecast(forecast_data) (line 489).
CallSend ==
    /\ mpc = "send_call"
    /\ start_wrapper("send_consumption_forecast")
    /\ mpc' = "send_ensure"
    /\ UNCHANGED <<now, client_vars, is_valid_ret, sender_vars, other_vars, frames, ensure_ret, days_ahead, date_index, results, exit_code, pipeline_log, token_requests>>

\* One attempt of the wrapper around send_consumption_forecast.
SendAttempt ==
    /\ mpc = "send_ensure" /\ func = "send_consumption_forecast" /\ ensure_ret /= None
    /\ \E r \in PostOutcomes(PortalBodies) :
        /\ wrapper(send_consumption_forecast(ensure_ret[1], r))
        /\ IF sends_post(ensure_ret[1])
           THEN /\ post_log' = Append(post_log, [url |-> ForecastUrl, outcome |-> r])
                /\ pipeline_log' = Append(pipeline_log, Request(ForecastUrl, access_token, is_token_valid, portal_ok(r)))
           ELSE UNCHANGED <<post_log, pipeline_log>>
    /\ ensure_ret' = None
    /\ mpc' = IF pc' = "done" THEN "send_done" ELSE "send_ensure"
    /\ UNCHANGED <<client_vars, is_valid_ret, sender_vars, other_vars, frames, days_ahead, date_index, results, exit_code, token_requests>>

\* if not self.send_consumption_forecast(...): return False, otherwise return True
\* (lines 489-497).
PipelineSendChecked ==
    /\ mpc = "send_done"
    /\ record_result(ret = Return("True"))
    /\ end_wrapper
    /\ UNCHANGED <<client_vars, is_valid_ret, sender_vars, other_vars, frames, days_ahead, exit_code, pipeline_log, token_requests>>

\* The clock moves forward between two steps of the run.
BatchTick == mpc \in {"loop", "login_call", "send_call"} /\ Tick

InitBatch ==
    /\ func = "none"
    /\ max_attempts = ClientMaxAttempts
    /\ backoff_factor = ClientBackoffFactor
    /\ pc = "idle"
    /\ attempt = 1
    /\ last_exception = NoExc
    /\ call_count = 0
    /\ sleep_calls = <<>>
    /\ history = <<>>
    /\ ret = NoRet
    /\ post_log = <<>>
    /\ now = 0
    /\ access_token = None
    /\ token_expires_at = None
    /\ token_expires_in = JInt(DefaultExpiresIn)
    /\ is_valid_ret = None
    /\ mpc = "start"
    /\ frames = <<>>
    /\ ensure_ret = None
    /\ days_ahead \in 0..MaxDaysAhead
    /\ date_index = 0
    /\ results = <<>>
    /\ exit_code = None
    /\ pipeline_log = <<>>
    /\ token_requests = 0
    /\ NoSender
    /\ NoOther

NextPipeline ==
    \/ TokenAttempt
    \/ EnsureValidToken
    \/ EnsureReturn
    \/ PipelineTokenChecked
    \/ CallLogin
    \/ LoginAttempt
    \/ PipelineLoginChecked
    \/ CallSend
    \/ SendAttempt
    \/ PipelineSendChecked
    \/ BatchTick

NextBatch ==
    \/ MainGetToken
    \/ MainFatalError
    \/ MainTokenChecked
    \/ ProcessDate
    \/ MainExit
    \/ NextPipeline

SpecBatch == InitBatch /\ [][NextBatch]_vars

\* execute_pipeline called for one date on a client that was just constructed, as
\* test_full_pipeline_success does.
InitPipeline ==
    /\ func = "none"
    /\ max_attempts = ClientMaxAttempts
    /\ backoff_factor = ClientBackoffFactor
    /\ pc = "idle"
    /\ attempt = 1
    /\ last_exception = NoExc
    /\ call_count = 0
    /\ sleep_calls = <<>>
    /\ history = <<>>
    /\ ret = NoRet
    /\ post_log = <<>>
    /\ now = 0
    /\ access_token = None
    /\ token_expires_at = None
    /\ token_expires_in = JInt(DefaultExpiresIn)
    /\ is_valid_ret = None
    /\ mpc = "pipeline_ensure"
    /\ frames = <<>>
    /\ ensure_ret = None
    /\ days_ahead = 1
    /\ date_index = 1
    /\ results = <<>>
    /\ exit_code = None
    /\ pipeline_log = <<>>
    /\ token_requests = 0
    /\ NoSender
    /\ NoOther

SpecPipeline == InitPipeline /\ [][NextPipeline]_vars

-----------------------------------------------------------------------------
\* PortalManager (src/send-forecast/portal_manager.py): name normalisation, the
\* facility map, the lookup and the login.

\* The characters names are made of, a name being a sequence of them.  "c," and "C,"
\* stand for the small and the capital c with cedilla, "I." for the capital dotted I.
NameChars == {"a", "A", "c,", "C", "I.", " "}

\* str.upper() on one character ("i'" stands for the small dotless i).
upper(c) ==
    CASE c = "a" -> "A"
      [] c = "c" -> "C"
      [] c = "c," -> "C,"
      [] c = "i" -> "I"
      [] c = "i'" -> "I"
      [] OTHER -> c

\* The replacements dict of _normalize_name (lines 143-150) on one character.
replacements(c) ==
    CASE c = "I." -> "I"
      [] c = "C," -> "C"
      [] OTHER -> c

\* name.replace('  ', ' '): one pass from the left, over non-overlapping occurrences.
RECURSIVE replace_double_space(_)
replace_double_space(name) ==
    IF Len(name) = 0
    THEN <<>>
    ELSE IF Len(name) >= 2 /\ name[1] = " " /\ name[2] = " "
    THEN <<" ">> \o replace_double_space(SubSeq(name, 3, Len(name)))
    ELSE <<name[1]>> \o replace_double_space(Tail(name))

\* name.strip()
RECURSIVE strip(_)
strip(name) ==
    IF Len(name) = 0
    THEN <<>>
    ELSE IF name[1] = " "
    THEN strip(Tail(name))
    ELSE IF name[Len(name)] = " "
    THEN strip(SubSeq(name, 1, Len(name) - 1))
    ELSE name

\* Mutant: the Turkish letters are replaced before the name is put in upper case.
normalize_name_replacing_before_upper(name) ==
    LET replaced == [i \in 1..Len(name) |-> replacements(name[i])]
        upper_name == [i \in 1..Len(replaced) |-> upper(replaced[i])]
    IN  strip(replace_double_space(upper_name))

\* PortalManager._normalize_name (lines 125-155).
normalize_name(name) ==
    LET upper_name == [i \in 1..Len(name) |-> upper(name[i])]
        stripped == strip(replace_double_space(upper_name))
    IN  [i \in 1..Len(stripped) |-> replacements(stripped[i])]

\* a in b, for two strings.
contains(a, b) == \E i \in 0..(Len(b) - Len(a)) : SubSeq(b, i + 1, i + Len(a)) = a

\* Mutant: the containment search comes before the exact match.
get_facility_id_containment_first(map, name) ==
    LET normalized == normalize_name(name)
        partial == {j \in 1..Len(map) : contains(normalized, map[j].key) \/ contains(map[j].key, normalized)}
    IN  IF partial /= {}
        THEN Some(map[CHOOSE j \in partial : \A k \in partial : j <= k].value.id)
        ELSE None

\* PortalManager.get_facility_id (lines 157-180) on the facility map given as the
\* sequence of its items: the entry under the normalised name, else the first entry
\* of the for loop whose key contains the name or is contained in it, else None.
get_facility_id(map, name) ==
    LET normalized == normalize_name(name)
        exact == {j \in 1..Len(map) : map[j].key = normalized}
        partial == {j \in 1..Len(map) : contains(normalized, map[j].key) \/ contains(map[j].key, normalized)}
    IN  IF exact /= {}
        THEN Some(map[CHOOSE j \in exact : TRUE].value.id)
        ELSE IF partial /= {}
        THEN Some(map[CHOOSE j \in partial : \A k \in partial : j <= k].value.id)
        ELSE None

\* PortalManager._build_facility_map (lines 105-116) over the facilities of the login
\* answer: a facility with an id and a name is stored under its normalised name.
RECURSIVE build_facility_map(_, _)
build_facility_map(map, facilities) ==
    IF facilities = <<>>
    THEN map
    ELSE LET facility == Head(facilities)
             facility_name == strip(facility.name)
         IN  build_facility_map(
                 IF facility.id /= 0 /\ facility_name /= <<>>
                 THEN dict_set(map, normalize_name(facility_name), [id |-> facility.id, original_name |-> facility_name])
                 ELSE map,
                 Tail(facilities))

\* Bodies of a 2xx answer of the login endpoint: not JSON; JSON that is not an object; an
\* object without facilities; an object with facilities.
LoginBodies ==
    {[valid_json |-> FALSE, is_object |-> FALSE, facilities |-> <<>>],
     [valid_json |-> TRUE, is_object |-> FALSE, facilities |-> <<>>],
     [valid_json |-> TRUE, is_object |-> TRUE, facilities |-> <<>>],
     [valid_json |-> TRUE, is_object |-> TRUE, facilities |-> <<[id |-> 101, name |-> <<"a">>]>>],
     [valid_json |-> TRUE, is_object |-> TRUE, facilities |-> <<[id |-> 101, name |-> <<"a", "c,">>], [id |-> 0, name |-> <<"a">>], [id |-> 102, name |-> <<" ", "A", "C,">>]>>]}

\* PortalManager.login from its POST on (lines 59-93), requests.post followed by
\* raise_for_status ending as r: a RequestException is raised again, response.json()
\* raises on a body that is not JSON, data.get raises on JSON that is not an object.
portal_login(r) ==
    IF r.kind = "raise"
    THEN Raise(r.exc)
    ELSE IF ~r.body.valid_json
    THEN Raise(Exc("JSONDecodeError", FALSE, 0, None))
    ELSE IF ~r.body.is_object
    THEN Raise(Exc("AttributeError", FALSE, 0, None))
    ELSE Return("data")

-----------------------------------------------------------------------------
\* ForecastSender (src/send-forecast/forecast_sender.py): send_forecast and
\* process_and_send.

\* What self.portal.get_facility_id(customer_name) gives for the customer of a group.
FacilityIds == {None, Some(0), Some(101)}

\* The hourly records of one customer and day, each given by the hour of its
\* prediction_ts, in the order of the query: the 24 hours of the day, or the first 23.
HourlyRecordSamples == {[i \in 1..HoursPerDay |-> i - 1], [i \in 1..(HoursPerDay - 1) |-> i - 1]}

\* build_api_payload (lines 156-213): None when the facility id is falsy; otherwise the
\* records are sorted by prediction_ts and one entry is made for each record, numbered
\* from 1.
build_api_payload(facility_id, hourly_records) ==
    IF facility_id = None
    THEN None
    ELSE IF facility_id[1] = 0
    THEN None
    ELSE LET ts == sorted(hourly_records)
         IN  Some([unitNo |-> facility_id[1],
                   total |-> 0,
                   forecasts |-> [idx \in 1..Len(ts) |->
                                     [deliveryStart |-> [day |-> 0, hour |-> ts[idx]],
                                      deliveryEnd |-> [day |-> (ts[idx] + 1) \div 24, hour |-> (ts[idx] + 1) % 24],
                                      order |-> idx]]])

\* self.build_api_payload(customer, date, hourly_records) for the group in progress
\* (line 348).
built_payload == build_api_payload(grouped[group_index].facility_id, grouped[group_index].hourly_records)

\* send_forecast (lines 252-298), requests.post followed by raise_for_status ending
\* as r: a RequestException is raised again, any 2xx answer is returned (its JSON,
\* or a dict made of its text).
send_forecast(r) ==
    IF r.kind = "raise"
    THEN Raise(r.exc)
    ELSE Return("response")

\* Mutant: a skipped group is not counted.
incremented_unless_skipped(d, k) == IF k = "skipped" THEN d ELSE [d EXCEPT ![k] = @ + 1]

\* results[k] += 1
incremented(d, k) == [d EXCEPT ![k] = @ + 1]

\* process_and_send step 1 (lines 319-322): without facility map, portal.login() is
\* called.  Its self.auth.refresh_if_needed() may raise before any login request is sent;
\* otherwise one POST is sent to the login endpoint and the facility map is built from
\* the answer.  Whatever login raises leaves process_and_send.
PortalLogin ==
    /\ sender_pc = "start"
    /\ IF facilities_map /= <<>>
       THEN sender_pc' = "fetch" /\ UNCHANGED portal_vars
       ELSE \/ sender_pc' = "raised" /\ UNCHANGED portal_vars
            \/ \E r \in PostOutcomes(LoginBodies) :
                 /\ login_requests' = Append(login_requests, r)
                 /\ IF portal_login(r).kind = "raise"
                    THEN sender_pc' = "raised" /\ UNCHANGED facilities_map
                    ELSE /\ sender_pc' = "fetch"
                         /\ facilities_map' = build_facility_map(facilities_map, r.body.facilities)
    /\ UNCHANGED <<wrapper_vars, now, client_vars, is_valid_ret, batch_vars, server_vars, auth_vars, call_vars, dry_run, grouped, group_index, sender_results, response, payload>>

\* process_and_send steps 2 and 3 (lines 324-339): fetch_forecasts may raise; without
\* records the zero summary is returned.
ProcessAndSendBegin ==
    /\ sender_pc = "fetch"
    /\ \/ sender_pc' = "raised" /\ UNCHANGED group_index
       \/ grouped = <<>> /\ sender_pc' = "returned" /\ UNCHANGED group_index
       \/ grouped /= <<>> /\ sender_pc' = "loop" /\ group_index' = 1
    /\ sender_results' = [sent |-> 0, failed |-> 0, skipped |-> 0]
    /\ UNCHANGED <<wrapper_vars, now, client_vars, is_valid_ret, batch_vars, other_vars, dry_run, grouped, response, payload>>

\* A group without payload is skipped (lines 348-352).
SkipWithoutPayload ==
    /\ sender_pc = "loop" /\ group_index <= Len(grouped)
    /\ built_payload = None
    /\ sender_results' = incremented(sender_results, "skipped")
    /\ payload' = built_payload
    /\ group_index' = group_index + 1
    /\ UNCHANGED <<wrapper_vars, now, client_vars, is_valid_ret, batch_vars, other_vars, sender_pc, dry_run, grouped, response>>

\* A dry run previews the payload and skips the group (lines 355-358).
SkipDryRun ==
    /\ sender_pc = "loop" /\ group_index <= Len(grouped)
    /\ built_payload /= None
    /\ dry_run
    /\ sender_results' = incremented(sender_results, "skipped")
    /\ payload' = built_payload
    /\ group_index' = group_index + 1
    /\ UNCHANGED <<wrapper_vars, now, client_vars, is_valid_ret, batch_vars, other_vars, sender_pc, dry_run, grouped, response>>

\* self.auth.refresh_if_needed() raises before any request is sent: the except clause
\* of process_and_send counts a failure (lines 267, 363-365).
SendForecastWithoutToken ==
    /\ sender_pc = "loop" /\ group_index <= Len(grouped)
    /\ built_payload /= None
    /\ ~dry_run
    /\ response' = None
    /\ sender_results' = incremented(sender_results, "failed")
    /\ payload' = built_payload
    /\ group_index' = group_index + 1
    /\ UNCHANGED <<wrapper_vars, now, client_vars, is_valid_ret, batch_vars, other_vars, sender_pc, dry_run, grouped>>

\* The payload is sent (lines 359-365): 'sent' is counted when send_forecast returns,
\* 'failed' when it raises.
SendForecast ==
    /\ sender_pc = "loop" /\ group_index <= Len(grouped)
    /\ built_payload /= None
    /\ ~dry_run
    /\ \E r \in PostOutcomes(PortalBodies) :
        /\ response' = Some(r)
        /\ sender_results' = IF send_forecast(r).kind = "return"
                             THEN incremented(sender_results, "sent")
                             ELSE incremented(sender_results, "failed")
    /\ payload' = built_payload
    /\ group_index' = group_index + 1
    /\ UNCHANGED <<wrapper_vars, now, client_vars, is_valid_ret, batch_vars, other_vars, sender_pc, dry_run, grouped>>

\* After the loops the summary is returned (lines 367-376).
ProcessAndSendReturn ==
    /\ sender_pc = "loop" /\ group_index > Len(grouped)
    /\ sender_pc' = "returned"
    /\ UNCHANGED <<wrapper_vars, now, client_vars, is_valid_ret, batch_vars, other_vars, dry_run, grouped, group_index, sender_results, response, payload>>

RECURSIVE SeqsUpTo(_, _)
SeqsUpTo(S, n) == IF n = 0 THEN {<<>>} ELSE SeqsUpTo(S, n - 1) \cup {Append(q, x) : q \in SeqsUpTo(S, n - 1), x \in S}

InitSender ==
    /\ func = "none"
    /\ max_attempts = ClientMaxAttempts
    /\ backoff_factor = ClientBackoffFactor
    /\ pc = "idle"
    /\ attempt = 1
    /\ last_exception = NoExc
    /\ call_count = 0
    /\ sleep_calls = <<>>
    /\ history = <<>>
    /\ ret = NoRet
    /\ post_log = <<>>
    /\ now = 0
    /\ access_token = None
    /\ token_expires_at = None
    /\ token_expires_in = JInt(DefaultExpiresIn)
    /\ is_valid_ret = None
    /\ NoBatch
    /\ facilities_map \in {<<>>, build_facility_map(<<>>, <<[id |-> 101, name |-> <<"a">>]>>)}
    /\ login_requests = <<>>
    /\ NoServer
    /\ NoCalls
    /\ NoAuth
    /\ sender_pc = "start"
    /\ dry_run \in BOOLEAN
    /\ grouped \in SeqsUpTo({[facility_id |-> f, hourly_records |-> h] : f \in FacilityIds, h \in HourlyRecordSamples}, MaxGroups)
    /\ group_index = 0
    /\ sender_results = [sent |-> 0, failed |-> 0, skipped |-> 0]
    /\ response = None
    /\ payload = None

NextSender ==
    \/ PortalLogin
    \/ ProcessAndSendBegin
    \/ SkipWithoutPayload
    \/ SkipDryRun
    \/ SendForecastWithoutToken
    \/ SendForecast
    \/ ProcessAndSendReturn

SpecSender == InitSender /\ [][NextSender]_vars

-----------------------------------------------------------------------------
\* AuthManager (src/send-forecast/auth_manager.py): the token it keeps in memory
\* (access_token, token_expiry) and in the token file.

\* datetime.isoformat(): the date and the time of day, written out field by field.
isoformat(t) == [date |-> t \div 86400, hour |-> (t % 86400) \div 3600, minute |-> (t % 3600) \div 60, second |-> t % 60]

\* datetime.fromisoformat(s)
fromisoformat(s) == s.date * 86400 + s.hour * 3600 + s.minute * 60 + s.second

\* The content of a token file: the JSON object _save_token_to_file writes, or text
\* that is not JSON.
TokenFile(valid_json, token, expiry, created_at) == [valid_json |-> valid_json, token |-> token, expiry |-> expiry, created_at |-> created_at]

CorruptTokenFile == TokenFile(FALSE, None, isoformat(0), isoformat(0))

\* is_token_valid (lines 152-158) of the fields tok and exp at the instant t.
AuthManager_is_token_valid(tok, exp, t) ==
    IF tok = None \/ exp = None
    THEN FALSE
    ELSE t < exp[1] - ExpiryBuffer

\* _load_token_from_file (lines 52-74): what it returns and the fields after it.
load_token_from_file ==
    IF token_file = None
    THEN [ret |-> FALSE, access_token |-> access_token, token_expiry |-> token_expiry]
    ELSE IF ~token_file[1].valid_json
    THEN [ret |-> FALSE, access_token |-> access_token, token_expiry |-> token_expiry]
    ELSE IF fromisoformat(token_file[1].expiry) > now
    THEN [ret |-> TRUE, access_token |-> token_file[1].token, token_expiry |-> Some(fromisoformat(token_file[1].expiry))]
    ELSE [ret |-> FALSE, access_token |-> access_token, token_expiry |-> token_expiry]

\* _save_token_to_file (lines 76-87) for the fields tok and exp.
save_token_to_file(tok, exp) == Some(TokenFile(TRUE, tok, isoformat(exp[1]), isoformat(now)))

\* Bodies of a 2xx answer of the token endpoint, as AuthManager may receive them.
AuthTokenBodies ==
    {NoBody, [valid_json |-> TRUE, access_token |-> None, expires_in |-> None]}
    \cup {[valid_json |-> TRUE, access_token |-> Some(t), expires_in |-> x] : t \in TokenValues, x \in {None, Some(JStr), Some(JInt(30)), Some(JInt(3330))}}

\* How the POST of get_access_token may end: a connection error, an HTTP error, or a
\* 2xx answer.
AuthPostOutcomes == {o \in PostOutcomes(AuthTokenBodies) : o.kind = "raise" => (o.exc.cls = "ConnectionError" \/ o.exc.status \in {401, 500})}

AuthResult(out, tok, exp, file, requested) == [out |-> out, access_token |-> tok, token_expiry |-> exp, token_file |-> file, requested |-> requested]

\* get_access_token (lines 89-150), its requests.post followed by raise_for_status
\* ending as r when it is sent: how the call ends, the fields and the file after it,
\* and whether the POST was sent.  Only a RequestException is caught, and raised again;
\* a KeyError or the TypeError of timedelta leaves the method as it is.
get_access_token(force_refresh, r) ==
    LET loaded == load_token_from_file
        expires_in == IF r.body.expires_in = None THEN JInt(DefaultExpiresIn) ELSE r.body.expires_in[1]
        expiry == Some(now + expires_in.val)
    IN  IF ~force_refresh /\ loaded.ret
        THEN AuthResult(Return(loaded.access_token), loaded.access_token, loaded.token_expiry, token_file, FALSE)
        ELSE IF r.kind = "raise"
        THEN AuthResult(Raise(r.exc), access_token, token_expiry, token_file, TRUE)
        ELSE IF ~r.body.valid_json
        THEN AuthResult(Raise(Exc("JSONDecodeError", FALSE, 0, None)), access_token, token_expiry, token_file, TRUE)
        ELSE IF r.body.access_token = None
        THEN AuthResult(Raise(Exc("KeyError", FALSE, 0, None)), access_token, token_expiry, token_file, TRUE)
        ELSE IF expires_in.type /= "int"
        THEN AuthResult(Raise(Exc("TypeError", FALSE, 0, None)), r.body.access_token, token_expiry, token_file, TRUE)
        ELSE AuthResult(Return(r.body.access_token), r.body.access_token, expiry, save_token_to_file(r.body.access_token, expiry), TRUE)

\* refresh_if_needed (lines 160-165)
refresh_if_needed(r) ==
    IF ~AuthManager_is_token_valid(access_token, token_expiry, now)
    THEN get_access_token(TRUE, r)
    ELSE AuthResult(Return(access_token), access_token, token_expiry, token_file, FALSE)

\* The call name(force_refresh) ends as g: the fields and the file are updated, the call
\* is recorded with the state it found and with the value is_token_valid() has right
\* after it.
auth_method_call(name, force_refresh, g) ==
    /\ g.requested => auth_requests < MaxAuthRequests
    /\ access_token' = g.access_token
    /\ token_expiry' = g.token_expiry
    /\ token_file' = g.token_file
    /\ auth_requests' = IF g.requested THEN auth_requests + 1 ELSE auth_requests
    /\ auth_call' = Some([name |-> name, force_refresh |-> force_refresh, out |-> g.out, requested |-> g.requested,
                          before |-> [access_token |-> access_token, token_expiry |-> token_expiry, token_file |-> token_file, now |-> now],
                          is_token_valid |-> AuthManager_is_token_valid(g.access_token, g.token_expiry, now)])
    /\ UNCHANGED <<wrapper_vars, now, token_expires_at, token_expires_in, is_valid_ret, batch_vars, sender_vars, portal_vars, server_vars, call_vars>>

\* The argument standing for the POST in a call that sends none.
NoPost == [kind |-> "none", exc |-> NoExc, body |-> NoBody]

GetAccessToken ==
    \E force_refresh \in BOOLEAN :
        IF ~force_refresh /\ load_token_from_file.ret
        THEN auth_method_call("get_access_token", force_refresh, get_access_token(force_refresh, NoPost))
        ELSE \E r \in AuthPostOutcomes : auth_method_call("get_access_token", force_refresh, get_access_token(force_refresh, r))

RefreshIfNeeded ==
    IF AuthManager_is_token_valid(access_token, token_expiry, now)
    THEN auth_method_call("refresh_if_needed", FALSE, refresh_if_needed(NoPost))
    ELSE \E r \in AuthPostOutcomes : auth_method_call("refresh_if_needed", FALSE, refresh_if_needed(r))

\* A new AuthManager on the same token file (lines 26-28).
NewAuthManager ==
    /\ auth_call /= None
    /\ auth_method_call("AuthManager", FALSE, AuthResult(NoRet, None, None, token_file, FALSE))

InitAuth ==
    /\ func = "none"
    /\ max_attempts = ClientMaxAttempts
    /\ backoff_factor = ClientBackoffFactor
    /\ pc = "idle"
    /\ attempt = 1
    /\ last_exception = NoExc
    /\ call_count = 0
    /\ sleep_calls = <<>>
    /\ history = <<>>
    /\ ret = NoRet
    /\ post_log = <<>>
    /\ now = 0
    /\ access_token = None
    /\ token_expires_at = None
    /\ token_expires_in = JInt(DefaultExpiresIn)
    /\ is_valid_ret = None
    /\ NoBatch
    /\ NoSender
    /\ NoPortal
    /\ NoServer
    /\ NoCalls
    /\ token_expiry = None
    /\ token_file \in {None, Some(CorruptTokenFile)}
    /\ auth_requests = 0
    /\ auth_call = None

NextAuth ==
    \/ GetAccessToken
    \/ RefreshIfNeeded
    \/ NewAuthManager
    \/ Tick

SpecAuth == InitAuth /\ [][NextAuth]_vars

-----------------------------------------------------------------------------
\* The mock server (src/server/main.py): the token table, the cleanup thread and the
\* request handlers.  A handler runs in a worker thread next to the cleanup thread.

mock_users == [u \in {"test_user"} |-> "test_password"]

TokenIds == 1..MaxTokens

\* total_records after the for loop: the sum of len(forecast_data.forecasts).
RECURSIVE total_records(_)
total_records(forecastDataList) ==
    IF forecastDataList = <<>>
    THEN 0
    ELSE Len(Head(forecastDataList)) + total_records(Tail(forecastDataList))

\* The body of save_consumption_forecast (lines 197-228) on a forecastDataList whose
\* entries are given by the order values of their forecasts: the first entry without 24
\* forecasts or whose sorted orders are not 1..24 raises HTTPException(400); then
\* request.forecastDataList[0] (line 220) raises IndexError on an empty list, which the
\* framework answers with 500; otherwise the success answer is returned.
save_consumption_forecast(forecastDataList) ==
    IF \E j \in 1..Len(forecastDataList) :
           Len(forecastDataList[j]) /= HoursPerDay \/ sorted(forecastDataList[j]) /= [i \in 1..HoursPerDay |-> i]
    THEN [status |-> 400, success |-> FALSE, savedRecords |-> 0]
    ELSE IF forecastDataList = <<>>
    THEN [status |-> 500, success |-> FALSE, savedRecords |-> 0]
    ELSE [status |-> 200, success |-> TRUE, savedRecords |-> total_records(forecastDataList)]

\* The body of login (lines 178-185).
login(username, user_data) ==
    IF username /= user_data.username
    THEN [status |-> 403, success |-> FALSE, savedRecords |-> 0]
    ELSE [status |-> 200, success |-> TRUE, savedRecords |-> 0]

\* The order values of the forecasts of one forecastDataList entry: 1..24, 24..1, 1..23,
\* and 24 values with 23 twice and no 24.
OrdersSamples ==
    {[i \in 1..HoursPerDay |-> i], [i \in 1..HoursPerDay |-> HoursPerDay + 1 - i], [i \in 1..(HoursPerDay - 1) |-> i],
     [i \in 1..HoursPerDay |-> IF i = HoursPerDay THEN HoursPerDay - 1 ELSE i]}

\* The requests to the endpoints that depend on verify_token, each with a bearer token.
ProtectedRequests ==
    {[endpoint |-> "login", token |-> t, username |-> u, forecastDataList |-> <<>>] : t \in TokenIds, u \in {"test_user", "nobody"}}
    \cup {[endpoint |-> "save", token |-> t, username |-> "", forecastDataList |-> l] : t \in TokenIds, l \in SeqsUpTo(OrdersSamples, MaxForecastData)}

\* The token is a key of mock_tokens.
token_in_mock_tokens(t) == \E j \in 1..Len(mock_tokens) : mock_tokens[j].key = t

\* get_token (lines 126-170), one handler from the request to the answer: the token is
\* stored with username, client_id and created_at but without expires_at.  token_lock is
\* not taken.
TokenEndpoint ==
    /\ handler_pc = "idle"
    /\ \E grant_type \in {"password", "implicit"}, username \in {"test_user", "nobody"}, password \in {"test_password", "wrong"} :
        /\ request' = [endpoint |-> "token", token |-> 0, username |-> username, forecastDataList |-> <<>>]
        /\ IF grant_type /= "password"
           THEN http_response' = Some([status |-> 400, success |-> FALSE, savedRecords |-> 0]) /\ UNCHANGED mock_tokens
           ELSE IF username \notin DOMAIN mock_users
           THEN http_response' = Some([status |-> 401, success |-> FALSE, savedRecords |-> 0]) /\ UNCHANGED mock_tokens
           ELSE IF mock_users[username] /= password
           THEN http_response' = Some([status |-> 401, success |-> FALSE, savedRecords |-> 0]) /\ UNCHANGED mock_tokens
           ELSE \E access_token_new \in TokenIds :
                   /\ ~token_in_mock_tokens(access_token_new)
                   /\ mock_tokens' = dict_set(mock_tokens, access_token_new, [username |-> username, client_id |-> "client", created_at |-> now])
                   /\ http_response' = Some([status |-> 200, success |-> TRUE, savedRecords |-> 0])
    /\ UNCHANGED <<program_vars, token_lock, cleanup_pc, expired_tokens, scan, handler_pc>>

\* verify_token line 106 for a request to a protected endpoint: the membership test.
\* token_lock is not taken.
VerifyTokenTest ==
    /\ handler_pc = "idle"
    /\ \E q \in ProtectedRequests :
        /\ request' = q
        /\ IF ~token_in_mock_tokens(q.token)
           THEN http_response' = Some([status |-> 401, success |-> FALSE, savedRecords |-> 0]) /\ UNCHANGED handler_pc
           ELSE http_response' = None /\ handler_pc' = "verified"
    /\ UNCHANGED <<program_vars, mock_tokens, token_lock, cleanup_pc, expired_tokens, scan>>

\* verify_token line 108, the read of mock_tokens[token] (KeyError, answered with 500,
\* when the token is gone), followed by the body of the endpoint.
VerifyTokenRead ==
    /\ handler_pc = "verified"
    /\ http_response' =
           IF ~token_in_mock_tokens(request.token)
           THEN Some([status |-> 500, success |-> FALSE, savedRecords |-> 0])
           ELSE LET user_data == mock_tokens[CHOOSE j \in 1..Len(mock_tokens) : mock_tokens[j].key = request.token].value
                IN  IF request.endpoint = "login"
                    THEN Some(login(request.username, user_data))
                    ELSE Some(save_consumption_forecast(request.forecastDataList))
    /\ handler_pc' = "idle"
    /\ UNCHANGED <<program_vars, mock_tokens, token_lock, cleanup_pc, expired_tokens, scan, request>>

\* cleanup_expired_tokens lines 30-36: the sleep ends, token_lock is acquired and the
\* iteration over mock_tokens.items() begins.
CleanupWake ==
    /\ cleanup_pc = "sleep"
    /\ token_lock = "free"
    /\ token_lock' = "cleanup_thread"
    /\ expired_tokens' = <<>>
    /\ scan' = [index |-> 1, size |-> Len(mock_tokens)]
    /\ cleanup_pc' = "scan"
    /\ UNCHANGED <<program_vars, mock_tokens, handler_pc, request, http_response>>

\* cleanup_expired_tokens lines 36-39, one step of the for loop.  The dict iterator
\* raises RuntimeError when the dict changed size since the loop began; data["expires_at"]
\* raises KeyError on an entry without that key.  An exception leaves the with block,
\* which releases the lock, and ends the thread.
CleanupScan ==
    /\ cleanup_pc = "scan"
    /\ IF Len(mock_tokens) /= scan.size
       THEN cleanup_pc' = "dead" /\ token_lock' = "free" /\ UNCHANGED <<expired_tokens, scan>>
       ELSE IF scan.index > Len(mock_tokens)
       THEN cleanup_pc' = "delete" /\ UNCHANGED <<token_lock, expired_tokens, scan>>
       ELSE LET data == mock_tokens[scan.index].value
            IN  IF "expires_at" \notin DOMAIN data
                THEN cleanup_pc' = "dead" /\ token_lock' = "free" /\ UNCHANGED <<expired_tokens, scan>>
                ELSE /\ expired_tokens' = IF now > data.expires_at THEN Append(expired_tokens, mock_tokens[scan.index].key) ELSE expired_tokens
                     /\ scan' = [scan EXCEPT !.index = @ + 1]
                     /\ UNCHANGED <<cleanup_pc, token_lock>>
    /\ UNCHANGED <<program_vars, mock_tokens, handler_pc, request, http_response>>

\* cleanup_expired_tokens lines 41-46: the expired tokens are deleted, the lock is
\* released and the thread sleeps again.
CleanupDelete ==
    /\ cleanup_pc = "delete"
    /\ mock_tokens' = SelectSeq(mock_tokens, LAMBDA item : \A j \in 1..Len(expired_tokens) : expired_tokens[j] /= item.key)
    /\ token_lock' = "free"
    /\ cleanup_pc' = "sleep"
    /\ UNCHANGED <<program_vars, expired_tokens, scan, handler_pc, request, http_response>>

\* The module is loaded: the table is empty and the cleanup thread is started.
InitServer ==
    /\ func = "none"
    /\ max_attempts = ClientMaxAttempts
    /\ backoff_factor = ClientBackoffFactor
    /\ pc = "idle"
    /\ attempt = 1
    /\ last_exception = NoExc
    /\ call_count = 0
    /\ sleep_calls = <<>>
    /\ history = <<>>
    /\ ret = NoRet
    /\ post_log = <<>>
    /\ now = 0
    /\ access_token = None
    /\ token_expires_at = None
    /\ token_expires_in = JInt(DefaultExpiresIn)
    /\ is_valid_ret = None
    /\ NoBatch
    /\ NoSender
    /\ NoPortal
    /\ NoCalls
    /\ NoAuth
    /\ mock_tokens = <<>>
    /\ token_lock = "free"
    /\ cleanup_pc = "sleep"
    /\ expired_tokens = <<>>
    /\ scan = [index |-> 1, size |-> 0]
    /\ handler_pc = "idle"
    /\ request = None
    /\ http_response = None

NextServer ==
    \/ TokenEndpoint
    \/ VerifyTokenTest
    \/ VerifyTokenRead
    \/ CleanupWake
    \/ CleanupScan
    \/ CleanupDelete

SpecServer == InitServer /\ [][NextServer]_vars

-----------------------------------------------------------------------------
\* Functions and constructors called on their own: transform_db_data_to_api_format, the
\* constructors of Config, AuthManager and ForecastSender, PortalManager.get_facility_id.

\* sum(values)
RECURSIVE sum(_)
sum(values) == IF values = <<>> THEN 0 ELSE Head(values) + sum(Tail(values))

\* round(value, 2) on a value given in thousandths: the nearest hundredth, a tie going to
\* the even one.
round2(value) ==
    LET q == value \div 10
        r == value % 10
    IN  IF r < 5 \/ (r = 5 /\ q % 2 = 0) THEN 10 * q ELSE 10 * (q + 1)

\* The database rows of one date: hours inside and outside 0..23, forecasts null or
\* given in thousandths.
RecordSamples == {[hour |-> h, wattica_forecast |-> v] : h \in {0, 23, 24}, v \in {None, Some(1005), Some(250)}}

\* Mutant: a slot is made for the hours of the records only.
transform_db_data_to_api_format_present_hours(records) ==
    IF records = <<>>
    THEN None
    ELSE LET hour_data(hour) == SelectSeq(records, LAMBDA record : record.hour = hour)
             slot(hour) ==
                 LET with_value == SelectSeq(hour_data(hour), LAMBDA r : r.wattica_forecast /= None)
                     values == [i \in 1..Len(with_value) |-> with_value[i].wattica_forecast[1]]
                 IN  [deliveryStart |-> [day |-> hour \div 24, hour |-> hour % 24],
                      deliveryEnd |-> [day |-> (hour + 1) \div 24, hour |-> (hour + 1) % 24],
                      order |-> hour + 1,
                      value |-> round2(IF values /= <<>> THEN sum(values) ELSE 0)]
             hours == SelectSeq([k \in 1..HoursPerDay |-> k - 1], LAMBDA hour : hour_data(hour) /= <<>>)
             forecasts == [k \in 1..Len(hours) |-> slot(hours[k])]
         IN  Some([forecasts |-> forecasts, total |-> round2(sum([k \in 1..Len(forecasts) |-> forecasts[k].value]))])

\* transform_db_data_to_api_format (lines 500-574): no payload without records;
\* otherwise the records are grouped by hour and one slot is made for each hour of
\* range(24), valued with the rounded sum of the hour's forecasts that are not null, or
\* 0.  A time is kept as the day and the hour strftime prints.
transform_db_data_to_api_format(records) ==
    IF records = <<>>
    THEN None
    ELSE LET hour_data(hour) == SelectSeq(records, LAMBDA record : record.hour = hour)
             slot(hour) ==
                 LET with_value == SelectSeq(hour_data(hour), LAMBDA r : r.wattica_forecast /= None)
                     values == [i \in 1..Len(with_value) |-> with_value[i].wattica_forecast[1]]
                 IN  [deliveryStart |-> [day |-> hour \div 24, hour |-> hour % 24],
                      deliveryEnd |-> [day |-> (hour + 1) \div 24, hour |-> (hour + 1) % 24],
                      order |-> hour + 1,
                      value |-> round2(IF values /= <<>> THEN sum(values) ELSE 0)]
             forecasts == [k \in 1..HoursPerDay |-> slot(k - 1)]
         IN  Some([forecasts |-> forecasts, total |-> round2(sum([k \in 1..HoursPerDay |-> forecasts[k].value]))])

\* A call transform_db_data_to_api_format(db_records, forecast_date).
TransformCall ==
    /\ called = "none"
    /\ \E records \in SeqsUpTo(RecordSamples, MaxRecords) :
        /\ db_records' = records
        /\ api_data' = transform_db_data_to_api_format(records)
    /\ called' = "transform_db_data_to_api_format"
    /\ UNCHANGED <<wrapper_vars, now, client_vars, is_valid_ret, batch_vars, sender_vars, portal_vars, server_vars, auth_vars, settings, raised, customer_name, facility_id_ret, normalized_name>>

\* bool(x) for an optional string: None and "" are falsy.
truthy(x) == IF x = None THEN FALSE ELSE x[1] /= ""

\* What os.getenv gives for a setting: unset, empty, or set.
EnvValues == {None, Some(""), Some("env")}

\* Config._validate (src/client/config.py lines 66-85): the fields that are falsy, in
\* the order of the checks; the ValueError names them all.
Config_validate(config) ==
    LET missing == SelectSeq(<<"HUB_URL", "PORTAL_URL", "USERNAME", "PASSWORD", "CLIENT_ID">>, LAMBDA k : ~truthy(config[k]))
    IN  IF missing /= <<>> THEN Some(missing) ELSE None

\* AuthManager._validate_config (src/send-forecast/auth_manager.py lines 33-50).
AuthManager_validate_config(required_vars) ==
    LET missing == SelectSeq(<<"HUB_URL", "USERNAME", "PASSWORD", "CLIENT_ID">>, LAMBDA key : ~truthy(required_vars[key]))
    IN  IF missing /= <<>> THEN Some(missing) ELSE None

\* ForecastSender._validate_config (src/send-forecast/forecast_sender.py lines 42-56):
\* the missing database settings are raised first; api_url (FORECAST_API_URL) is checked
\* only when none is missing.
ForecastSender_validate_config(config) ==
    LET missing == SelectSeq(<<"host", "database", "user", "password">>, LAMBDA k : ~truthy(config[k]))
    IN  IF missing /= <<>>
        THEN Some(missing)
        ELSE IF ~truthy(config["api_url"])
        THEN Some(<<"api_url">>)
        ELSE None

\* Config(...) (src/client/config.py lines 57-64): each field is the constructor's
\* argument or, when that is falsy, the environment variable.
ConfigInit ==
    /\ called = "none"
    /\ \E args \in [{"HUB_URL", "PORTAL_URL", "USERNAME", "PASSWORD", "CLIENT_ID"} -> {None, Some("arg")}],
          environ \in [{"HUB_URL", "PORTAL_URL", "USERNAME", "PASSWORD", "CLIENT_ID"} -> EnvValues] :
        /\ settings' = [k \in DOMAIN args |-> IF truthy(args[k]) THEN args[k] ELSE environ[k]]
        /\ raised' = Config_validate(settings')
    /\ called' = "Config"
    /\ UNCHANGED <<wrapper_vars, now, client_vars, is_valid_ret, batch_vars, sender_vars, portal_vars, server_vars, auth_vars, db_records, api_data, customer_name, facility_id_ret, normalized_name>>

\* AuthManager() (src/send-forecast/auth_manager.py lines 16-31).
AuthManagerInit ==
    /\ called = "none"
    /\ \E environ \in [{"HUB_URL", "USERNAME", "PASSWORD", "CLIENT_ID"} -> EnvValues] :
        /\ settings' = environ
        /\ raised' = AuthManager_validate_config(settings')
    /\ called' = "AuthManager"
    /\ UNCHANGED <<wrapper_vars, now, client_vars, is_valid_ret, batch_vars, sender_vars, portal_vars, server_vars, auth_vars, db_records, api_data, customer_name, facility_id_ret, normalized_name>>

\* ForecastSender(auth_manager, portal_manager) (src/send-forecast/forecast_sender.py
\* lines 20-40): db_config and api_url are read from the environment, DB_PORT having a
\* default.
ForecastSenderInit ==
    /\ called = "none"
    /\ \E environ \in [{"host", "database", "user", "password", "api_url"} -> EnvValues] :
        /\ settings' = environ
        /\ raised' = ForecastSender_validate_config(settings')
    /\ called' = "ForecastSender"
    /\ UNCHANGED <<wrapper_vars, now, client_vars, is_valid_ret, batch_vars, sender_vars, portal_vars, server_vars, auth_vars, db_records, api_data, customer_name, facility_id_ret, normalized_name>>

InitFunctions ==
    /\ func = "none"
    /\ max_attempts = ClientMaxAttempts
    /\ backoff_factor = ClientBackoffFactor
    /\ pc = "idle"
    /\ attempt = 1
    /\ last_exception = NoExc
    /\ call_count = 0
    /\ sleep_calls = <<>>
    /\ history = <<>>
    /\ ret = NoRet
    /\ post_log = <<>>
    /\ now = 0
    /\ access_token = None
    /\ token_expires_at = None
    /\ token_expires_in = JInt(DefaultExpiresIn)
    /\ is_valid_ret = None
    /\ NoBatch
    /\ NoSender
    /\ NoOther

\* The facilities of a login answer.
FacilitySamples == {[id |-> id, name |-> name] : id \in {101, 102}, name \in {<<"a">>, <<"A", "c,">>, <<"I.", " ", "a">>}}

\* A call get_facility_id(customer_name) on a PortalManager whose facility map was built
\* from a login answer.
GetFacilityIdCall ==
    /\ called = "none"
    /\ \E facilities \in SeqsUpTo(FacilitySamples, MaxFacilities), name \in SeqsUpTo(NameChars, MaxNameLen) :
        /\ facilities_map' = build_facility_map(<<>>, facilities)
        /\ customer_name' = name
        /\ facility_id_ret' = get_facility_id(facilities_map', name)
    /\ called' = "get_facility_id"
    /\ UNCHANGED <<wrapper_vars, now, client_vars, is_valid_ret, batch_vars, sender_vars, login_requests, server_vars, auth_vars, db_records, api_data, settings, raised, normalized_name>>

\* Names with runs of spaces.
SpacedNameSamples == {<<"a", " ", "a">>, <<"a", " ", " ", "a">>, <<"a", " ", " ", " ", "a">>, <<" ", "a", " ", " ">>}

\* A call _normalize_name(name).
NormalizeNameCall ==
    /\ called = "none"
    /\ \E name \in SeqsUpTo(NameChars, MaxNameLen) \cup SpacedNameSamples :
        /\ customer_name' = name
        /\ normalized_name' = normalize_name(name)
    /\ called' = "_normalize_name"
    /\ UNCHANGED <<wrapper_vars, now, client_vars, is_valid_ret, batch_vars, sender_vars, portal_vars, server_vars, auth_vars, db_records, api_data, settings, raised, facility_id_ret>>

NextFunctions ==
    \/ NormalizeNameCall
    \/ TransformCall
    \/ ConfigInit
    \/ AuthManagerInit
    \/ ForecastSenderInit
    \/ GetFacilityIdCall

SpecFunctions == InitFunctions /\ [][NextFunctions]_vars

-----------------------------------------------------------------------------
\* The two programs side by side: a run is either execute_pipeline on a fresh
\* SmartPulseClient or ForecastSender.process_and_send.

InitPrograms == InitPipeline \/ InitSender

NextPrograms == NextPipeline \/ NextSender

SpecPrograms == InitPrograms /\ [][NextPrograms]_vars

-----------------------------------------------------------------------------
\* Properties of retry_on_failure (checked under SpecRetry).

\* The errors the retry policy retries with the generic backoff.
IsGenericRetryable(e) ==
    \/ e.cls \in {"ConnectionError", "Timeout"} /\ ~e.has_response
    \/ e.cls = "HTTPError" /\ e.has_response /\ e.status \in {500, 502, 503, 504}

\* The errors the retry policy retries: the generic ones and HTTP 429.
IsRetryable(e) == IsGenericRetryable(e) \/ (e.cls = "HTTPError" /\ e.has_response /\ e.status = 429)

\* An HTTP error whose status the policy does not retry (401, 404, ...).
IsTerminalHttp(e) == e.cls = "HTTPError" /\ e.has_response /\ e.status \notin {500, 502, 503, 504, 429}

AllRaised(n, P(_)) == \A i \in 1..n : history[i].kind = "raise" /\ P(history[i].exc)

\* C2: a function that raises a generic retryable error (ConnectionError, Timeout, HTTP
\* 500/502/503/504) on its first N-1 calls and then returns, 1 <= N <= max_attempts: the
\* wrapper goes on to call N, returns the function's value, has called it exactly N times
\* and has slept exactly N-1 times, backoff_factor^(k-1) seconds after the k-th failure
\* (1, 2, 4, ... for backoff_factor 2); a Timeout counts as a ConnectionError does.
C2_FailThenSucceed ==
    /\ (func = "mock_func" /\ Len(history) < max_attempts /\ AllRaised(Len(history), IsGenericRetryable))
        => /\ pc = "running"
           /\ attempt = Len(history) + 1
           /\ call_count = Len(history)
           /\ Len(sleep_calls) = Len(history)
    /\ (func = "mock_func" /\ Len(history) >= 1 /\ history[Len(history)].kind = "return" /\ AllRaised(Len(history) - 1, IsGenericRetryable))
        => /\ pc = "done"
           /\ Len(history) <= max_attempts
           /\ ret = Return(history[Len(history)].val)
           /\ call_count = Len(history)
           /\ Len(sleep_calls) = Len(history) - 1
           /\ \A k \in 1..Len(sleep_calls) : sleep_calls[k] = Pow(backoff_factor, k - 1)
           /\ backoff_factor = 2 => sleep_calls = SubSeq(<<1, 2, 4, 8, 16>>, 1, Len(history) - 1)

C2_Witness ==
    /\ pc = "done" /\ max_attempts = 3 /\ backoff_factor = 2
    /\ Len(history) = 3
    /\ history[1].exc.cls = "Timeout"
    /\ history[2].exc.status = 503
    /\ ret = Return("success")
    /\ call_count = 3
    /\ sleep_calls = <<1, 2>>

\* C3: a function whose first call raises an HTTP error of a status outside
\* {500, 502, 503, 504, 429}: the wrapper has called it exactly once, has not slept, and
\* raises that very error, whatever attempts remain.
C3_TerminalErrorRaisedAtOnce ==
    (func = "mock_func" /\ Len(history) >= 1 /\ history[1].kind = "raise" /\ IsTerminalHttp(history[1].exc))
        => /\ pc = "done"
           /\ call_count = 1
           /\ Len(history) = 1
           /\ sleep_calls = <<>>
           /\ ret = history[1]
           /\ ret.exc.call = 1

C3_Witness ==
    /\ pc = "done" /\ max_attempts = 3
    /\ Len(history) = 1
    /\ history[1].exc.status = 401
    /\ ret = history[1]
    /\ sleep_calls = <<>>

\* C4: a function that raises a retryable error on every call: the wrapper ends having
\* called it exactly max_attempts times and slept max_attempts-1 times, raising the
\* exception of the last call.
C4_ExhaustionRaisesLast ==
    (func = "mock_func" /\ pc = "done" /\ AllRaised(Len(history), IsRetryable))
        => /\ call_count = max_attempts
           /\ Len(sleep_calls) = max_attempts - 1
           /\ ret = history[max_attempts]
           /\ ret.exc.call = max_attempts

\* C5: whatever the function does, the wrapper ends after at least one and at most
\* max_attempts calls and at most max_attempts-1 sleeps, returning the function's value
\* or raising the function's last exception.
C5_BoundedAndFaithful ==
    (func = "mock_func" /\ pc = "done")
        => /\ 1 <= call_count /\ call_count <= max_attempts
           /\ Len(sleep_calls) <= max_attempts - 1
           /\ ret.kind \in {"return", "raise"}
           /\ ret = history[Len(history)]

\* C6: after a failure with HTTP 429 whose Retry-After parses as the integer k, on an
\* attempt that is not the last, the wrapper sleeps exactly k seconds.
C6_RetryAfterHonoured ==
    func = "mock_func" =>
        \A i \in 1..Len(history) :
            (/\ i < max_attempts
             /\ history[i].kind = "raise"
             /\ history[i].exc.cls = "HTTPError" /\ history[i].exc.has_response /\ history[i].exc.status = 429
             /\ history[i].exc.retry_after /= None
             /\ ~int_raises_ValueError(history[i].exc.retry_after[1]))
                => /\ Len(sleep_calls) >= i
                   /\ sleep_calls[i] = int(history[i].exc.retry_after[1])

-----------------------------------------------------------------------------
\* Properties of the token's validity (C1 under SpecValid, the others under Spec).

\* A token is held: access_token is a non-empty string.
TokenHeld == access_token /= None /\ access_token[1] /= ""

\* C1: _is_token_valid() is true iff a token is held, an expiry is set and the clock is
\* strictly before expiry - 5 minutes; so it is false with no token, with an expiry in
\* the past, and with an expiry less than (or exactly) 5 minutes ahead.
C1_IsTokenValidIff ==
    is_valid_ret /= None =>
        /\ is_valid_ret[1] <=> (TokenHeld /\ token_expires_at /= None /\ now + 300 < token_expires_at[1])
        /\ access_token = None => ~is_valid_ret[1]
        /\ (token_expires_at /= None /\ token_expires_at[1] <= now) => ~is_valid_ret[1]
        /\ (token_expires_at /= None /\ token_expires_at[1] - now <= 300) => ~is_valid_ret[1]

C1_Witness ==
    /\ is_valid_ret = Some(FALSE)
    /\ access_token = Some("T1")
    /\ token_expires_at = Some(4300)
    /\ now = 4000

\* The latest POST of the wrapper call in progress.
LastPost == post_log[Len(post_log)].outcome

\* C7: get_token's POST failing with a retryable transport error is attempted again, up
\* to 3 attempts, and after exhaustion the last transport error is raised to the caller.
C7_TokenPostRetried ==
    (/\ func = "get_token" /\ pc = "done" /\ Len(post_log) >= 1
     /\ \A i \in 1..Len(post_log) : post_log[i].outcome.kind = "raise" /\ IsRetryable(post_log[i].outcome.exc))
        => /\ Len(post_log) = 3
           /\ ret.kind = "raise"
           /\ ret.exc.cls = LastPost.exc.cls
           /\ ret.exc.status = LastPost.exc.status

\* The step in which get_token's body runs.
GetTokenStep == func = "get_token" /\ pc = "running" /\ call_count' = call_count + 1

\* C8: when the token POST raises an HTTP error, or answers 2xx with a body that is not
\* JSON, get_token returns False, raises nothing, and leaves access_token and
\* token_expires_at as they were.
C8_FailedTokenRequestReturnsFalse ==
    [][(/\ GetTokenStep
        /\ \/ post_log'[Len(post_log')].outcome.kind = "raise" /\ post_log'[Len(post_log')].outcome.exc.cls = "HTTPError"
           \/ post_log'[Len(post_log')].outcome.kind = "ok" /\ ~post_log'[Len(post_log')].outcome.body.valid_json)
        => /\ pc' = "done"
           /\ ret' = Return("False")
           /\ access_token' = access_token
           /\ token_expires_at' = token_expires_at]_vars

C8_Witness ==
    /\ func = "get_token" /\ pc = "done"
    /\ Len(post_log) = 1
    /\ LastPost.kind = "ok" /\ ~LastPost.body.valid_json
    /\ ret = Return("False")
    /\ access_token = None
    /\ token_expires_at = None

\* C9: a get_token that succeeds on a response with access_token T and expires_in E
\* (3600 when absent) leaves the client holding T with expiry = time of the call + E; for
\* E = 3600 the token is valid right afterwards, and it is invalid once the clock has
\* advanced 3600-300+1 seconds from the call.
C9_TokenStoredWithExpiry ==
    /\ [][(GetTokenStep /\ ret' = Return("True"))
            => LET r == post_log'[Len(post_log')].outcome
                   E == IF r.body.expires_in = None THEN 3600 ELSE r.body.expires_in[1].val
               IN  /\ r.kind = "ok"
                   /\ r.body.access_token /= None
                   /\ access_token' = r.body.access_token
                   /\ token_expires_at' = Some(now + E)
                   /\ token_expires_in' = JInt(E)
                   /\ E = 3600 => is_token_valid']_vars
    /\ [](token_expires_at /= None /\ now >= (token_expires_at[1] - 3600) + (3600 - 300 + 1) => ~is_token_valid)

C9_Witness ==
    /\ func = "get_token" /\ pc = "done" /\ ret = Return("True")
    /\ LastPost.body.expires_in = None
    /\ access_token = Some("T1")
    /\ token_expires_at = Some(3299 + 3600)
    /\ now = 3299 + 3301
    /\ ~is_token_valid

\* C10: the clock only moves forward; with the stored token and expiry unchanged the
\* validity never goes from false to true; and whenever it does go from false to true,
\* the step is a get_token that succeeded.
C10_ValidityOneWay ==
    [][/\ now' >= now
       /\ (access_token' = access_token /\ token_expires_at' = token_expires_at /\ ~is_token_valid) => ~is_token_valid'
       /\ (~is_token_valid /\ is_token_valid') => (GetTokenStep /\ ret' = Return("True"))]_vars

C10_Witness ==
    /\ TokenHeld
    /\ token_expires_at = Some(3600)
    /\ now = 3300
    /\ ~is_token_valid

-----------------------------------------------------------------------------
\* Properties of the portal calls, of execute_pipeline and of the batch run (checked
\* under SpecBatch, C13 under SpecPipeline).

\* The POSTs of pipeline_log that went to the portal (login or submission).
IsPortalRequest(q) == q.url \in {LoginUrl, ForecastUrl}

\* C11: every login POST and every submission POST carries as Bearer a token that is
\* held and valid (_is_token_valid() true) at the instant the request is sent, whatever
\* expires_in the identity provider returned.
C11_PostsCarryValidToken ==
    \A i \in 1..Len(pipeline_log) :
        IsPortalRequest(pipeline_log[i]) => (pipeline_log[i].bearer /= None /\ pipeline_log[i].valid)

\* The step in which the body of login_to_portal, or of send_consumption_forecast, runs
\* after its _ensure_valid_token() ended as ens.
PortalStep(f, ens) == func = f /\ pc = "running" /\ ensure_ret = Some(ens) /\ call_count' = call_count + 1

\* C12: when the client holds no valid token and get_token returns False,
\* login_to_portal returns False without sending a request to the login endpoint, and
\* send_consumption_forecast returns False without sending one to the submission endpoint.
C12_NoTokenNoPortalRequest ==
    /\ [](ensure_ret = Some(Return("False")) => ~is_token_valid)
    /\ [][PortalStep("login_to_portal", Return("False"))
            => /\ pc' = "done"
               /\ ret' = Return("False")
               /\ post_log' = post_log
               /\ pipeline_log' = pipeline_log]_vars
    /\ [][PortalStep("send_consumption_forecast", Return("False"))
            => /\ pc' = "done"
               /\ ret' = Return("False")
               /\ post_log' = post_log
               /\ pipeline_log' = pipeline_log]_vars

C12_Witness ==
    /\ mpc = "login_done" /\ func = "login_to_portal"
    /\ ret = Return("False")
    /\ call_count = 1
    /\ post_log = <<>>
    /\ ~is_token_valid
    /\ Len(pipeline_log) = 1
    /\ pipeline_log[1].url = TokenUrl

\* The URLs of the POSTs sent for the current date, in order.
PipelineUrls == [i \in 1..Len(pipeline_log) |-> pipeline_log[i].url]

\* The date of the pipeline has been recorded, every endpoint having answered with success.
PipelineEndedAllOk == mpc = "loop" /\ Len(results) = 1 /\ \A i \in 1..Len(pipeline_log) : pipeline_log[i].ok

\* C13 as stated: from a client without token, the token, login and submission endpoints
\* each succeeding, execute_pipeline sends exactly three POSTs, token, login, submit, and
\* the date is recorded as a success.
C13_ThreePostsOnSuccess ==
    PipelineEndedAllOk => (PipelineUrls = <<TokenUrl, LoginUrl, ForecastUrl>> /\ results[1].value)

\* C13 amended: the same, when moreover the token of the first answer is valid on issue
\* (expires_in above 5 minutes) and is still held and valid when the pipeline ends.
C13_ThreePostsWhileTokenValid ==
    (/\ PipelineEndedAllOk
     /\ Len(pipeline_log) >= 1 /\ pipeline_log[1].valid
     /\ is_token_valid
     /\ token_expires_at[1] - token_expires_in.val = 0)
        => /\ PipelineUrls = <<TokenUrl, LoginUrl, ForecastUrl>>
           /\ results = <<[key |-> forecast_dates[1], value |-> TRUE]>>
           /\ token_requests = 1

C13_Witness ==
    /\ mpc = "loop"
    /\ results = <<[key |-> forecast_dates[1], value |-> TRUE]>>
    /\ PipelineUrls = <<TokenUrl, LoginUrl, ForecastUrl>>
    /\ \A i \in 1..3 : pipeline_log[i].ok /\ pipeline_log[i].valid
    /\ token_expires_at = Some(3600)
    /\ now = 3299

\* C14: when the submission endpoint answers HTTP 200 with success=false,
\* send_consumption_forecast returns False and raises nothing, the wrapper ends after
\* that single call without sleeping, and the batch run records the date as failed.
C14_BusinessFailureReported ==
    /\ [][(/\ PortalStep("send_consumption_forecast", Return("True"))
           /\ post_log'[Len(post_log')].outcome.kind = "ok"
           /\ post_log'[Len(post_log')].outcome.body = PortalBody(TRUE, TRUE, Some(FALSE), None))
            => /\ pc' = "done"
               /\ ret' = Return("False")
               /\ call_count' = 1
               /\ sleep_calls' = <<>>
               /\ mpc' = "send_done"]_vars
    /\ [][(mpc = "send_done" /\ ret = Return("False"))
            => /\ mpc' = "loop"
               /\ results' = Append(results, [key |-> forecast_dates[date_index], value |-> FALSE])
               /\ exit_code' = exit_code]_vars

C14_Witness ==
    /\ mpc = "send_done" /\ func = "send_consumption_forecast" /\ pc = "done"
    /\ Len(post_log) = 1
    /\ post_log[1].outcome.kind = "ok"
    /\ post_log[1].outcome.body = PortalBody(TRUE, TRUE, Some(FALSE), None)
    /\ ret = Return("False")
    /\ call_count = 1
    /\ sleep_calls = <<>>
    /\ Len(results) = 1

\* The date in progress has been given its result.
DateRecorded == mpc = "loop" /\ date_index >= 2 /\ Len(results) = date_index - 1

\* The POSTs of one date come in the order token, login, submit: the submission is the
\* last request, and there is at most one login.
StepsInOrder ==
    \A i, j \in 1..Len(pipeline_log) :
        i < j => /\ pipeline_log[i].url /= ForecastUrl
                 /\ pipeline_log[i].url = LoginUrl => pipeline_log[j].url /= LoginUrl

\* A submission is sent only after a login that succeeded.
SubmitOnlyAfterLogin ==
    \A j \in 1..Len(pipeline_log) :
        pipeline_log[j].url = ForecastUrl => \E i \in 1..(j - 1) : pipeline_log[i].url = LoginUrl /\ pipeline_log[i].ok

\* A request that failed makes the date's result False.
FailureEndsDate ==
    (DateRecorded /\ \E i \in 1..Len(pipeline_log) : ~pipeline_log[i].ok) => ~results[Len(results)].value

\* C16: within execute_pipeline the requests of one date are sent in the order token,
\* login, submit; a failure at any step makes the date's result False; no login POST is
\* sent unless a valid token is held, and no submission POST unless the login succeeded.
C16_PipelineOrder ==
    /\ StepsInOrder
    /\ SubmitOnlyAfterLogin
    /\ FailureEndsDate
    /\ \A i \in 1..Len(pipeline_log) : pipeline_log[i].url = LoginUrl => pipeline_log[i].valid

\* A date is being processed: process_forecast_for_date has been called and has not returned.
InDate == mpc \in {"pipeline_ensure", "login_call", "login_ensure", "login_done", "send_call", "send_ensure", "send_done"}

\* C17: once the initial token is obtained, the dates are processed one after the other
\* in list order, each exactly once, whatever happened to the earlier ones; results holds
\* one boolean per date processed, all dates when the run ends; and no exception of a
\* date ends the run.
C17_EveryDateOnce ==
    /\ [](/\ \A j \in 1..Len(results) : results[j].key = forecast_dates[j] /\ results[j].value \in BOOLEAN
          /\ InDate => (date_index \in 1..Len(forecast_dates) /\ Len(results) = date_index - 1)
          /\ mpc = "loop" => Len(results) = date_index - 1
          /\ (mpc = "exited" /\ date_index >= 1) => (Len(results) = Len(forecast_dates) /\ date_index = Len(forecast_dates) + 1))
    /\ [][/\ InDate => mpc' /= "exited"
          /\ (mpc /= "initial_token" /\ date_index' /= date_index) => (InDate \/ mpc = "loop") /\ date_index' = date_index + 1 /\ Len(results') = Len(results) + 1
          /\ (mpc /= "initial_token" /\ results' /= results) => (date_index' = date_index + 1 /\ SubSeq(results', 1, Len(results)) = results)]_vars

C17_Witness ==
    /\ mpc = "exited"
    /\ days_ahead = 2
    /\ results = <<[key |-> forecast_dates[1], value |-> FALSE], [key |-> forecast_dates[2], value |-> TRUE]>>
    /\ exit_code = Some(1)

\* C18: when the initial token acquisition fails (get_token returns False or raises),
\* the run ends there: no date is processed, no login or submission request is sent, and
\* the exit status is not zero.
C18_AbortWithoutToken ==
    /\ [][(mpc = "initial_token" /\ pc = "done" /\ ret /= Return("True"))
            => /\ mpc' = "exited"
               /\ exit_code' /= None /\ exit_code'[1] /= 0
               /\ date_index' = 0
               /\ results' = <<>>]_vars
    /\ []((mpc = "exited" /\ date_index = 0)
            => /\ exit_code /= None /\ exit_code[1] /= 0
               /\ results = <<>>
               /\ \A i \in 1..Len(pipeline_log) : ~IsPortalRequest(pipeline_log[i]))

C18_Witness ==
    /\ mpc = "exited"
    /\ days_ahead = 2
    /\ date_index = 0
    /\ results = <<>>
    /\ exit_code = Some(1)
    /\ token_requests = 1
    /\ Len(pipeline_log) = 1 /\ pipeline_log[1].url = TokenUrl /\ ~pipeline_log[1].ok

\* The run ended without entering the date loop.
Aborted == mpc = "exited" /\ date_index = 0

\* C19: the run exits with a non-zero status iff some date is recorded as failed or the
\* run aborted; it exits with status 0 when every date succeeded, the list of dates
\* being empty included.
C19_ExitStatus ==
    mpc = "exited" =>
        /\ exit_code /= None
        /\ exit_code[1] /= 0 <=> (Aborted \/ \E j \in 1..Len(results) : ~results[j].value)
        /\ (~Aborted /\ \A j \in 1..Len(results) : results[j].value) => exit_code = Some(0)
        /\ (~Aborted /\ days_ahead = 0) => (results = <<>> /\ exit_code = Some(0))

C19_Witness ==
    /\ mpc = "exited"
    /\ days_ahead = 2
    /\ results = <<[key |-> forecast_dates[1], value |-> TRUE], [key |-> forecast_dates[2], value |-> FALSE]>>
    /\ exit_code = Some(1)

\* A token is held and the clock is before its expiry - 5 minutes.
BeforeExpiryMargin == TokenHeld /\ token_expires_at /= None /\ now < token_expires_at[1] - 300

\* C20: in a batch run the initial acquisition sends one token request, and while the
\* token held stays valid (clock before expiry - 5 minutes) no check of execute_pipeline,
\* login_to_portal or send_consumption_forecast sends another one.
C20_OneTokenWhileValid ==
    /\ []((mpc = "loop" /\ date_index = 1) => token_requests = 1)
    /\ [][(mpc /= "initial_token" /\ (token_requests' /= token_requests \/ GetTokenStep \/ Len(frames') > Len(frames)))
            => ~BeforeExpiryMargin]_vars

C20_Witness ==
    /\ mpc = "exited"
    /\ days_ahead = 2
    /\ results = <<[key |-> forecast_dates[1], value |-> TRUE], [key |-> forecast_dates[2], value |-> TRUE]>>
    /\ token_requests = 1
    /\ BeforeExpiryMargin
    /\ now = 2

-----------------------------------------------------------------------------
\* Properties of ForecastSender (checked under SpecSender).

\* C15: in process_and_send a submission answered HTTP 200 with success=false is counted
\* as failed: the step increments 'failed' and leaves 'sent' as it was.
C15_BusinessFailureCountedFailed ==
    [][(/\ sender_pc = "loop"
        /\ group_index' = group_index + 1
        /\ response' /= None
        /\ response'[1].kind = "ok"
        /\ response'[1].body = PortalBody(TRUE, TRUE, Some(FALSE), None))
        => /\ sender_results'.failed = sender_results.failed + 1
           /\ sender_results'.sent = sender_results.sent]_vars

-----------------------------------------------------------------------------
\* Properties of the portal login across the dates of a run.

\* The step sends a POST to the login endpoint.
LoginRequestSent == Len(pipeline_log') = Len(pipeline_log) + 1 /\ pipeline_log'[Len(pipeline_log')].url = LoginUrl

\* C21: within one run over several dates the login request is issued at most once: once
\* a date has gone through (its login and its submission succeeded), no later step of the
\* run sends another login request.
C21_LoginOncePerRun ==
    [][(\E j \in 1..Len(results) : results[j].value) => ~LoginRequestSent]_vars

\* The login endpoint answered r with HTTP 401 or 403.
TokenRejected(r) == r.kind = "raise" /\ r.exc.cls = "HTTPError" /\ r.exc.has_response /\ r.exc.status \in {401, 403}

\* The step is an attempt of SmartPulseClient.login_to_portal whose POST is rejected.
ClientLoginRejected == LoginRequestSent /\ TokenRejected(post_log'[Len(post_log')].outcome)

\* The step is a PortalManager.login whose POST is rejected.
PortalLoginRejected == login_requests' /= login_requests /\ TokenRejected(login_requests'[Len(login_requests')])

\* C22: when the login endpoint rejects the token with 401 or 403, the login request is
\* sent exactly once, without retry and without sleep, and the caller sees a failed login
\* at once: login_to_portal returns False after its first call and the date ends as
\* failed without a submission; PortalManager.login raises and process_and_send ends.
C22_RejectedLoginNotRetried ==
    /\ [][ClientLoginRejected =>
            /\ pc' = "done" /\ ret' = Return("False")
            /\ call_count' = 1 /\ sleep_calls' = <<>> /\ now' = now
            /\ Cardinality({i \in 1..Len(pipeline_log') : pipeline_log'[i].url = LoginUrl}) = 1
            /\ mpc' = "login_done"]_vars
    /\ [][(mpc = "login_done" /\ ret = Return("False")) =>
            /\ mpc' = "loop" /\ pipeline_log' = pipeline_log
            /\ results' = <<[key |-> forecast_dates[1], value |-> FALSE]>>]_vars
    /\ [][PortalLoginRejected =>
            /\ Len(login_requests') = 1
            /\ sender_pc' = "raised"
            /\ sleep_calls' = <<>> /\ now' = now
            /\ facilities_map' = <<>>]_vars
    /\ [][sender_pc /= "raised"]_vars

C22_Witness ==
    /\ sender_pc = "raised"
    /\ Len(login_requests) = 1
    /\ login_requests[1].kind = "raise" /\ login_requests[1].exc.has_response /\ login_requests[1].exc.status = 403
    /\ facilities_map = <<>>

-----------------------------------------------------------------------------
\* Properties of answers that are not JSON.

\* r is a 2xx answer whose body is not valid JSON.
NotJson(r) == r.kind = "ok" /\ ~r.body.valid_json

\* The step is an attempt of a decorated SmartPulseClient method (get_token,
\* login_to_portal, send_consumption_forecast) whose POST is answered 2xx without JSON.
ClientAnswerNotJson == Len(post_log') = Len(post_log) + 1 /\ NotJson(post_log'[Len(post_log')].outcome)

\* The step is a ForecastSender.send_forecast whose POST is answered 2xx without JSON.
SenderAnswerNotJson == response' /= response /\ response' /= None /\ NotJson(response'[1])

\* C23: a 2xx answer that is not valid JSON is surfaced as a failure: the token, login
\* and submission calls of SmartPulseClient return False, and ForecastSender.send_forecast
\* returns no success result, the submission not being counted as sent.
C23_InvalidJsonSurfaced ==
    /\ [][ClientAnswerNotJson => (pc' = "done" /\ ret' = Return("False"))]_vars
    /\ [][SenderAnswerNotJson => (send_forecast(response'[1]).kind = "raise" /\ sender_results'.sent = sender_results.sent)]_vars

-----------------------------------------------------------------------------
\* Properties of the mock server (checked under SpecServer).

\* An entry of forecastDataList, given by its order values, has exactly 24 hourly
\* forecasts whose orders are the numbers 1..24 in some order.
WellFormedEntry(orders) == Len(orders) = 24 /\ {orders[i] : i \in 1..Len(orders)} = 1..24

\* The step answers a submission that came with a token of the table.
SubmissionAnswered == VerifyTokenRead /\ request.endpoint = "save" /\ token_in_mock_tokens(request.token)

\* C24: the submission endpoint answers 400 to every request that reaches it with some
\* forecastDataList entry that has not exactly 24 hourly forecasts or whose order values
\* are not 1..24 in some order, and it answers every authenticated request whose entries
\* all satisfy both conditions with success=true.
C24_ServerValidation ==
    [][SubmissionAnswered =>
        LET entries == request.forecastDataList
            answer == http_response'[1]
        IN  IF \E j \in 1..Len(entries) : ~WellFormedEntry(entries[j])
            THEN answer.status = 400
            ELSE answer.status = 200 /\ answer.success]_vars

\* The step is an access of a request handler to the token table: the insertion of
\* get_token, the membership test or the read of verify_token.
HandlerTableAccess == (TokenEndpoint /\ mock_tokens' /= mock_tokens) \/ VerifyTokenTest \/ VerifyTokenRead

\* C27: every access to the token table is mutually exclusive under token_lock: no
\* handler inserts into, tests or reads the table while the cleanup thread holds the
\* lock for its scan and deletions, and no token found present by verify_token is
\* missing when it is read.
C27_TableAccessUnderLock ==
    /\ [][HandlerTableAccess => token_lock /= "cleanup_thread"]_vars
    /\ [][VerifyTokenRead => token_in_mock_tokens(request.token)]_vars

\* The item of mock_tokens has expired.
Expired(item) == IF "expires_at" \in DOMAIN item.value THEN now > item.value.expires_at ELSE FALSE

\* C28: the sweep keeps running for the lifetime of the server: each sweep removes
\* exactly the tokens whose expiry time has passed and leaves all others, and with
\* tokens issued by the token endpoint in the table the cleanup thread never ends, so
\* that another sweep can take place after any sweep.
C28_SweepKeepsRunning ==
    /\ [](cleanup_pc /= "dead")
    /\ [][CleanupDelete => mock_tokens' = SelectSeq(mock_tokens, LAMBDA item : ~Expired(item))]_vars

-----------------------------------------------------------------------------
\* Properties of the functions called on their own (checked under SpecFunctions).

\* C25: for every non-empty list of database records, whatever hours are present,
\* missing, duplicated or out of range and whatever values are null,
\* transform_db_data_to_api_format gives a payload of exactly 24 hourly slots, the i-th
\* with order i, its end one hour after its start, and valued 0 when no record has its
\* hour; for an empty list it gives no payload.
C25_TransformGives24Slots ==
    called = "transform_db_data_to_api_format" =>
        IF db_records = <<>>
        THEN api_data = None
        ELSE IF api_data = None
        THEN FALSE
        ELSE LET forecasts == api_data[1].forecasts
             IN  /\ Len(forecasts) = 24
                 /\ \A i \in 1..24 :
                     /\ forecasts[i].order = i
                     /\ (24 * forecasts[i].deliveryEnd.day + forecasts[i].deliveryEnd.hour) - (24 * forecasts[i].deliveryStart.day + forecasts[i].deliveryStart.hour) = 1
                     /\ (\A j \in 1..Len(db_records) : db_records[j].hour /= i - 1) => forecasts[i].value = 0

C25_Witness ==
    /\ called = "transform_db_data_to_api_format"
    /\ db_records = <<[hour |-> 24, wattica_forecast |-> Some(250)], [hour |-> 23, wattica_forecast |-> None]>>
    /\ api_data /= None
    /\ Len(api_data[1].forecasts) = 24
    /\ api_data[1].total = 0

-----------------------------------------------------------------------------
\* Properties of the payloads of ForecastSender (checked under SpecSender).

\* C26: every payload ForecastSender builds and submits for a customer and day has
\* exactly 24 hourly slots with the order values 1..24, whatever number of hourly records
\* the database holds for that customer and day.
C26_SenderPayloadHas24Slots ==
    (response /= None /\ payload /= None) =>
        /\ Len(payload[1].forecasts) = 24
        /\ \A i \in 1..Len(payload[1].forecasts) : payload[1].forecasts[i].order = i

\* C29: each configuration validator (Config, AuthManager, ForecastSender) raises at
\* construction if and only if at least one of its required settings is absent or
\* empty, and the error raised names every missing setting.
C29_ValidatorsNameAllMissing ==
    called \in {"Config", "AuthManager", "ForecastSender"} =>
        LET absent == {k \in DOMAIN settings : IF settings[k] = None THEN TRUE ELSE settings[k][1] = ""}
        IN  IF raised = None
            THEN absent = {}
            ELSE absent /= {} /\ absent = {raised[1][i] : i \in 1..Len(raised[1])}

\* The map entry j matches the normalised customer name by containment.
ContainmentMatch(j) ==
    \/ contains(normalize_name(customer_name), facilities_map[j].key)
    \/ contains(facilities_map[j].key, normalize_name(customer_name))

\* C30: get_facility_id is a two-phase lookup: when the normalised customer name is a
\* key of the facility map the result is that facility's id, whatever containment matches
\* exist; otherwise it is the id of the first entry, in insertion order, whose key
\* contains the normalised name or is contained in it; otherwise None.  Several matches
\* raise no error.
C30_TwoPhaseLookup ==
    called = "get_facility_id" =>
        LET entries == 1..Len(facilities_map)
            is_key == \E j \in entries : facilities_map[j].key = normalize_name(customer_name)
        IN  /\ \A j \in entries :
                facilities_map[j].key = normalize_name(customer_name) => facility_id_ret = Some(facilities_map[j].value.id)
            /\ \A j \in entries :
                (~is_key /\ ContainmentMatch(j) /\ \A k \in 1..(j - 1) : ~ContainmentMatch(k)) => facility_id_ret = Some(facilities_map[j].value.id)
            /\ (\A j \in entries : ~ContainmentMatch(j)) => facility_id_ret = None

C30_Witness ==
    /\ called = "get_facility_id"
    /\ Len(facilities_map) = 2
    /\ facilities_map[2].key = normalize_name(customer_name)
    /\ ContainmentMatch(1)
    /\ facilities_map[1].value.id /= facilities_map[2].value.id
    /\ facility_id_ret = Some(facilities_map[2].value.id)

-----------------------------------------------------------------------------
\* The fallback waits of HTTP 429 (checked under SpecRetry).

\* The i-th call of the wrapped function failed with HTTP 429.
RateLimited(i) ==
    /\ history[i].kind = "raise"
    /\ history[i].exc.cls = "HTTPError" /\ history[i].exc.has_response /\ history[i].exc.status = 429

\* C34: after a failure with HTTP 429 on attempt a < max_attempts the wrapper sleeps
\* backoff_factor^a seconds when the Retry-After header is present but does not parse as
\* an integer, and 2 * backoff_factor^a seconds when the header is absent; both waits are
\* longer than the generic backoff backoff_factor^(a-1) of the same attempt.
C34_RateLimitFallbackWaits ==
    func = "mock_func" =>
        \A a \in 1..Len(history) :
            (a < max_attempts /\ RateLimited(a)) =>
                IF history[a].exc.retry_after = None
                THEN /\ Len(sleep_calls) >= a
                     /\ sleep_calls[a] = 2 * Pow(backoff_factor, a)
                     /\ sleep_calls[a] > Pow(backoff_factor, a - 1)
                ELSE int_raises_ValueError(history[a].exc.retry_after[1])
                        => /\ Len(sleep_calls) >= a
                           /\ sleep_calls[a] = Pow(backoff_factor, a)
                           /\ sleep_calls[a] > Pow(backoff_factor, a - 1)

-----------------------------------------------------------------------------
\* Properties of AuthManager (checked under SpecAuth).

\* At the instant t less than five minutes remain before the expiry exp.
WithinSafetyMargin(exp, t) == IF exp = None THEN FALSE ELSE t >= exp[1] - SafetyMargin

\* C32: AuthManager takes its token for invalid as soon as now >= expiry - 5 minutes:
\* is_token_valid() is false then, and a call of refresh_if_needed() made then requests
\* a new token.
C32_AuthFiveMinuteMargin ==
    /\ WithinSafetyMargin(token_expiry, now) => ~AuthManager_is_token_valid(access_token, token_expiry, now)
    /\ IF auth_call = None
       THEN TRUE
       ELSE (auth_call[1].name = "refresh_if_needed" /\ WithinSafetyMargin(auth_call[1].before.token_expiry, auth_call[1].before.now))
                => auth_call[1].requested

-----------------------------------------------------------------------------
\* The stored token and its expiry (C33, checked under Spec).

\* The expiry a token answer r received at the instant t stands for, None when its
\* expires_in is not a number.
ExpiryOf(r, t) ==
    IF r.body.expires_in = None
    THEN Some(t + DefaultExpiresIn)
    ELSE IF r.body.expires_in[1].type = "int"
    THEN Some(t + r.body.expires_in[1].val)
    ELSE None

\* C33: the stored token is replaced wholesale: over any attempt of get_token, however
\* it ends and whatever the answer holds, the stored token string and the stored expiry
\* either both come from the new answer or are both unchanged.
C33_TokenReplacedWholesale ==
    [][(func = "get_token" /\ post_log' /= post_log) =>
        LET r == post_log'[Len(post_log')].outcome
        IN  \/ access_token' = access_token /\ token_expires_at' = token_expires_at
            \/ /\ r.kind = "ok"
               /\ access_token' = r.body.access_token
               /\ ExpiryOf(r, now) /= None
               /\ token_expires_at' = ExpiryOf(r, now)]_vars

-----------------------------------------------------------------------------
\* The accounting of process_and_send (C37, checked under SpecSender).

\* The groups counted so far.
Accounted == sender_results.sent + sender_results.failed + sender_results.skipped

\* C37: process_and_send accounts for every (customer, day) group exactly once: inside
\* the loops the groups counted are those already passed, whatever became of them, so a
\* failed submission does not stop the following groups; on return sent + failed +
\* skipped is the number of groups; and with dry_run=True no submission is sent and
\* sent = failed = 0.
C37_EveryGroupAccountedOnce ==
    /\ sender_pc = "loop" => Accounted = group_index - 1
    /\ sender_pc = "returned" => Accounted = Len(grouped)
    /\ (sender_pc \in {"loop", "returned"} /\ dry_run)
        => response = None /\ sender_results.sent = 0 /\ sender_results.failed = 0

C37_Witness ==
    /\ sender_pc = "returned"
    /\ ~dry_run
    /\ Len(grouped) = 2
    /\ sender_results = [sent |-> 1, failed |-> 1, skipped |-> 0]
    /\ response /= None
    /\ response[1].kind = "ok"

-----------------------------------------------------------------------------
\* A date without records (C38, checked under SpecBatch).

\* C38: when the query gives no records for a date, process_forecast_for_date returns
\* False for it without sending any token, login or submission request: no POST is
\* sent in the step, the date is recorded as failed and the loop goes on to the next one.
C38_NoRecordsDateFails ==
    [][process_date("empty") =>
        /\ Len(results') = date_index
        /\ results'[date_index] = [key |-> forecast_dates[date_index], value |-> FALSE]
        /\ token_requests' = token_requests
        /\ post_log' = post_log
        /\ pipeline_log' = <<>>
        /\ mpc' = "loop" /\ date_index' = date_index + 1]_vars

C38_Witness ==
    /\ mpc = "exited"
    /\ Len(results) = 2
    /\ results[1].value = TRUE
    /\ results[2].value = FALSE
    /\ pipeline_log = <<>>
    /\ exit_code = Some(1)

-----------------------------------------------------------------------------
\* Exceptions the wrapper does not catch (C39, checked under SpecRetry).

\* C39: an exception of the wrapped function that is not a RequestException
\* (JSONParseError, KeyError) passes through the wrapper unchanged: the call that raised
\* it is the last one and no sleep follows it; raised by the first call, the function
\* was called exactly once and the wrapper did not sleep at all.
C39_OtherExceptionsPassThrough ==
    func = "mock_func" =>
        \A i \in 1..Len(history) :
            (history[i].kind = "raise" /\ ~IsRequestException(history[i].exc)) =>
                /\ pc = "done"
                /\ ret = history[i]
                /\ ret.exc.call = i
                /\ Len(history) = i
                /\ call_count = i
                /\ Len(sleep_calls) = i - 1
                /\ i = 1 => (call_count = 1 /\ sleep_calls = <<>>)

C39_Witness ==
    /\ func = "mock_func"
    /\ pc = "done"
    /\ max_attempts = 3
    /\ Len(history) = 1
    /\ history[1].kind = "raise"
    /\ history[1].exc.cls = "JSONParseError"
    /\ ret = history[1]
    /\ call_count = 1
    /\ sleep_calls = <<>>

-----------------------------------------------------------------------------
\* Names that differ in case and in Turkish letter variants (C31, checked under
\* SpecFunctions).

\* The letter a character is a form of: its small and capital forms and its Turkish
\* variants are forms of one letter.
Letter(c) ==
    CASE c \in {"a", "A"} -> "A"
      [] c \in {"c", "C", "c,", "C,"} -> "C"
      [] c \in {"i", "i'", "I", "I."} -> "I"
      [] OTHER -> c

\* The names that differ from name only in letter case and in the variant of a letter.
RECURSIVE Variants(_)
Variants(name) ==
    IF name = <<>>
    THEN {<<>>}
    ELSE {<<c>> \o v : c \in {d \in NameChars \cup {"c", "C,", "i", "i'", "I"} : Letter(d) = Letter(Head(name))}, v \in Variants(Tail(name))}

\* C31: two customer names that differ only in letter case and in the Turkish letter
\* variants normalize to the same key, and get_facility_id returns the same facility id
\* for both.
C31_VariantsResolveAlike ==
    called = "get_facility_id" =>
        \A v \in Variants(customer_name) :
            /\ normalize_name(v) = normalize_name(customer_name)
            /\ get_facility_id(facilities_map, v) = facility_id_ret

C31_Witness ==
    /\ called = "get_facility_id"
    /\ customer_name = <<"a", "C">>
    /\ <<"A", "c,">> \in Variants(customer_name)
    /\ Len(facilities_map) = 1
    /\ facilities_map[1].value.original_name = <<"A", "c,">>
    /\ facilities_map[1].key = normalize_name(customer_name)
    /\ facility_id_ret = Some(facilities_map[1].value.id)

-----------------------------------------------------------------------------
\* Normalising twice (C40, checked under SpecFunctions).

\* C40: _normalize_name is idempotent: normalising a normalised name returns it
\* unchanged, also for names with runs of three or more spaces, so the key under which
\* _build_facility_map stores a facility of that name is found again by an exact lookup
\* of the key itself.
C40_NormalizeIdempotent ==
    called = "_normalize_name" =>
        /\ normalize_name(normalized_name) = normalized_name
        /\ LET stored == build_facility_map(<<>>, <<[id |-> 101, name |-> customer_name]>>)
           IN  \A j \in 1..Len(stored) : normalize_name(stored[j].key) = stored[j].key

\* The latest call was a call of method that returned.
AuthReturned(method) ==
    IF auth_call = None
    THEN FALSE
    ELSE auth_call[1].name = method /\ auth_call[1].out.kind = "return"

\* C35: every token that get_access_token() or refresh_if_needed() returns, loaded from
\* the token file or freshly requested, is a valid one: is_token_valid() is true right
\* after the call returns.
C35_ReturnedTokenIsValid ==
    (AuthReturned("get_access_token") \/ AuthReturned("refresh_if_needed")) => auth_call[1].is_token_valid

\* The token file f holds a token that _save_token_to_file wrote.
SavedToken(f) == IF f = None THEN FALSE ELSE f[1].valid_json

\* The call c requested a token and the answer carried one: the call returned it, or
\* timedelta raised TypeError on the answer's expires_in after the token was stored.
TokenReceived(c) == c.requested /\ (c.out.kind = "return" \/ c.out.exc.cls = "TypeError")

\* C36: token persistence round-trips.  A get_access_token() without force_refresh, by
\* this or by a new AuthManager on the same file, made before the expiry of the token
\* saved in the file returns that token with that expiry and sends no request; made
\* after the expiry, or with force_refresh=True, it requests a new token and overwrites
\* the file with it: the file then holds the new token, and reads back to the expiry
\* kept with it.
C36_TokenFileRoundTrip ==
    IF auth_call = None
    THEN TRUE
    ELSE LET c == auth_call[1]
             f == c.before.token_file
         IN  c.name = "get_access_token" =>
                /\ (~c.force_refresh /\ SavedToken(f) /\ c.before.now < fromisoformat(f[1].expiry))
                    => /\ ~c.requested
                       /\ c.out = Return(f[1].token)
                       /\ access_token = f[1].token
                       /\ token_expiry = Some(fromisoformat(f[1].expiry))
                       /\ token_file = f
                /\ (SavedToken(f) /\ (c.force_refresh \/ c.before.now > fromisoformat(f[1].expiry)))
                    => c.requested
                /\ TokenReceived(c)
                    => /\ SavedToken(token_file)
                       /\ token_file[1].token = access_token
                       /\ token_expiry = Some(fromisoformat(token_file[1].expiry))

====
